---- MODULE Spec2Model ----
(***************************************************************************)
(* Orchestration core of temporal-ocr: the workflows                       *)
(*   DocumentProcessingWorkflow  (app/workflows/workflows.py)              *)
(*   AIConsensusWorkflow, AIChainWorkflow, AISpecialistWorkflow            *)
(*                               (app/workflows/ai_example_workflows.py)   *)
(* the direct pipeline DocumentService.process_document                    *)
(*                               (app/services/document_service.py)        *)
(* and the activities they schedule, run by the workflow engine under the  *)
(* retry policy each execute_activity call passes (or the engine's default *)
(* policy, unlimited attempts, when the call passes none).                 *)
(*                                                                         *)
(* One behaviour is one WorkflowRun.  Texts are small integers, 0 being    *)
(* the empty string.                                                       *)
(*                                                                         *)
(* Two further specifications follow single functions: ParseSpec applies   *)
(* a summarization or validation activity to one provider response, and    *)
(* CallSpec makes one call of a workflow starter                           *)
(* (app/workflows/workflow_runner.py, scripts/start_workflow.py) or of an  *)
(* adapter's constructor.                                                  *)
(***************************************************************************)
EXTENDS Integers, Sequences, FiniteSets, TLC

VARIABLES
    wf,          \* which workflow this run executes
    use_azure,   \* DocumentProcessingWorkflow.run argument
    file_exists, \* whether doc_input.file_path names an existing file
    providers,   \* MultiAIWorkflowInput.providers (a list of names)
    provider,    \* DocumentService.process_document argument ("none" = None)
    status,      \* "Running", "Succeeded", "Failed"
    pc,          \* position of the workflow coroutine (the await it is at)
    failure,     \* error kind the run failed with
    st,          \* per step: "idle", "scheduled", "running", "completed", "failed"
    attempts,    \* per step: attempts started
    waits,       \* per step with a bounded policy: backoff waits taken
    hist,        \* per step: outcome of each finished attempt, in order
    lastError,   \* per step: error kind of the last failed attempt
    input,       \* per step: the request the workflow passed to the activity
    ret,         \* per step: the value the successful attempt returned
    tasks,       \* fan-out: the steps handed to asyncio.gather, in order
    finished,    \* fan-out: the gathered steps in the order they completed
    ocr_result,  \* DocumentProcessingWorkflow local
    results,     \* AI workflows' local dict (insertion-ordered)
    result,      \* the value the run returned
    crashes,     \* crashes of the orchestrating process so far
    invoked,     \* DocumentProcessingWorkflow: names of the activities scheduled
    elapsed,     \* per step: minutes the last finished attempt ran
    delays,      \* per step: seconds the engine waited before each retry, in order
    \* one activity function applied to one response of its provider:
    fn,           \* the function applied ("none" while a workflow runs)
    full_text,    \* the text handed to the function (a sequence of tokens)
    api_fails,    \* whether the provider's API call raises
    reply,        \* the response text of the provider (a sequence of tokens)
    remote_calls, \* provider calls issued
    out,          \* what each application of the function returned or raised
    \* one call of an entry point of the package (a starter or a constructor):
    callee,       \* the function or class called ("none" otherwise)
    passed,       \* the arguments the caller passes
    env,          \* os.environ: the names set to a non-empty value
    server,       \* how the workflow server answers this call
    at,           \* position of the call
    client,       \* the clients constructed so far
    started,      \* the start_workflow requests sent, in order
    raised,       \* the exception the call raised ("none" if none)
    returned,     \* the value the call returned
    \* two runs in flight at once, served by the same adapter objects:
    runs,         \* per run: its input, position, locals and return value
    adapters      \* per adapter object: the attributes set in its constructor

vars == <<wf, use_azure, file_exists, providers, provider, status, pc, failure, st,
          attempts, waits, hist, lastError, input, ret, tasks, finished,
          ocr_result, results, result, crashes, invoked, elapsed, delays,
          fn, full_text, api_fails, reply, remote_calls, out,
          callee, passed, env, server, at, client, started, raised, returned,
          runs, adapters>>

inputVars == <<wf, use_azure, file_exists, providers, provider>>
runVars == <<wf, use_azure, file_exists, providers, provider, status, pc, failure,
             st, attempts, waits, hist, lastError, input, ret, tasks, finished,
             ocr_result, results, result, crashes, invoked, elapsed, delays>>
timeVars == <<elapsed, delays>>
parseVars == <<fn, full_text, api_fails, reply, remote_calls, out>>
callVars == <<callee, passed, env, server, at, client, started, raised, returned>>
pairVars == <<runs, adapters>>

----------------------------------------------------------------------------
\* Bounds of the model

\* texts are 0..MaxText (0 is the empty string)
MaxText == 2
\* summaries a provider can return are 1..MaxSummary
MaxSummary == 2
\* attempt counters of steps with unlimited attempts saturate here
AttemptCap == 1
\* longest providers list
MaxProviders == 3
\* crashes of the orchestrating process in one run
MaxCrashes == 1

----------------------------------------------------------------------------
\* Names

Workflows == {"doc", "consensus", "chain", "specialist", "service"}

DocSteps == {"ocr", "summ"}
AISteps == {"gemini", "openai", "anthropic", "synth"}
ServiceSteps == {"extract", "validate"}
Steps == DocSteps \cup AISteps \cup ServiceSteps

KnownProviders == {"gemini", "openai", "anthropic"}
\* "other" stands for any string that names no provider
ProviderNames == KnownProviders \cup {"other"}
DefaultProviders == <<"gemini", "openai", "anthropic">>
ProviderLists == UNION {[1..n -> ProviderNames] : n \in 0..MaxProviders}
\* the lists given to AIChainWorkflow and AISpecialistWorkflow, which have the
\* field in their input and do not read it: the default and a list of one
ListsNotRead == {DefaultProviders, <<"openai">>}

Texts == 0..MaxText
ErrorKinds == {"FileNotFoundError", "ValueError", "Other", "Timeout"}

Range(f) == {f[i] : i \in DOMAIN f}
Min(a, b) == IF a < b THEN a ELSE b

NoRet == [content |-> 0, summary |-> 0, model_used |-> "none"]
NoResult == [kind |-> "none"]

----------------------------------------------------------------------------
\* Retry policies

\* doc_intelligence_retry_policy.maximum_attempts
DocIntelMaximumAttempts == 3
\* summary_retry_policy.maximum_attempts
SummaryMaximumAttempts == 3
\* the engine's default policy (no retry_policy argument): 0 = unlimited
DefaultMaximumAttempts == 0

\* DocumentService awaits its adapters directly: one call, no retry
DirectCallAttempts == 1

MaximumAttempts(s) ==
    CASE s = "ocr" -> DocIntelMaximumAttempts
      [] s = "summ" -> SummaryMaximumAttempts
      [] s \in ServiceSteps -> DirectCallAttempts
      [] OTHER -> DefaultMaximumAttempts

\* mutant: FileNotFoundError left out of the OCR step's list
NonRetryableErrorTypes_NoFileNotFound(s) ==
    CASE s = "ocr" -> {"ValueError"}
      [] s = "summ" -> {"ValueError"}
      [] OTHER -> {}

NonRetryableErrorTypes(s) ==
    CASE s = "ocr" -> {"FileNotFoundError", "ValueError"}
      [] s = "summ" -> {"ValueError"}
      [] OTHER -> {}

\* mutant: one attempt too many before the step is given up
StepFails_OffByOne(s, k, a) ==
    \/ k \in NonRetryableErrorTypes(s)
    \/ MaximumAttempts(s) # 0 /\ a > MaximumAttempts(s)

\* mutant: the error type is not looked at
StepFails_IgnoresErrorType(s, k, a) ==
    MaximumAttempts(s) # 0 /\ a >= MaximumAttempts(s)

\* the engine's decision after a failed attempt of step s with error kind k,
\* a attempts having been made: TRUE = the step fails, FALSE = retry
StepFails(s, k, a) ==
    \/ k \in NonRetryableErrorTypes(s)
    \/ MaximumAttempts(s) # 0 /\ a >= MaximumAttempts(s)

\* counters of steps with unlimited attempts saturate at AttemptCap
Bump(s, n) ==
    IF MaximumAttempts(s) = 0 THEN Min(n + 1, AttemptCap) ELSE n + 1

\* the backoff waits are counted for the steps with a bounded policy
Backoff(s, n) ==
    IF MaximumAttempts(s) = 0 THEN n ELSE n + 1

\* the attempt history is kept for the steps with a bounded policy
Record(s, h, o) ==
    IF MaximumAttempts(s) = 0 THEN h ELSE Append(h, o)

\* the retry policies, intervals in seconds: those of
\* app/workflows/workflows.py
doc_intelligence_retry_policy ==
    [maximum_attempts |-> 3, initial_interval |-> 5, maximum_interval |-> 30]
summary_retry_policy ==
    [maximum_attempts |-> 3, initial_interval |-> 15, maximum_interval |-> 120]
\* and those of the top-level workflows.py
ocr_retry_policy ==
    [maximum_attempts |-> 3, initial_interval |-> 10, maximum_interval |-> 60]
top_level_summary_retry_policy ==
    [maximum_attempts |-> 3, initial_interval |-> 15, maximum_interval |-> 120]

RetryPolicies ==
    {doc_intelligence_retry_policy, summary_retry_policy, ocr_retry_policy,
     top_level_summary_retry_policy}

\* the retry_policy argument of the execute_activity call of a step of
\* DocumentProcessingWorkflow
RetryPolicyOf(s) ==
    CASE s = "ocr" -> doc_intelligence_retry_policy
      [] s = "summ" -> summary_retry_policy

\* RetryPolicy.backoff_coefficient, which no policy sets: the default
BackoffCoefficient == 2

RECURSIVE Pow(_, _)
Pow(b, e) == IF e = 0 THEN 1 ELSE b * Pow(b, e - 1)

\* mutant: the interval shrinks from retry to retry
NextDelay_Shrinks(p, n) ==
    p.initial_interval \div Pow(BackoffCoefficient, n - 1)

\* the engine's wait before retry n (n = 1 after the first failed attempt)
NextDelay(p, n) ==
    Min(p.initial_interval * Pow(BackoffCoefficient, n - 1), p.maximum_interval)

\* the delays are followed for the steps with a configured policy
Waited(s, d, n) ==
    IF MaximumAttempts(s) = 0 \/ s \notin DocSteps THEN d
    ELSE Append(d, NextDelay(RetryPolicyOf(s), n))

\* start_to_close_timeout of the execute_activity call of a step of
\* DocumentProcessingWorkflow, in minutes
StartToCloseTimeout(s) ==
    CASE s = "ocr" -> 5
      [] s = "summ" -> 3

\* minutes the remote call of one attempt can take; the durations are
\* followed for the steps of DocumentProcessingWorkflow
Durations(s) == IF s \in DocSteps THEN {2, 4, 6} ELSE {0}

\* mutant: both steps are given the extraction timeout
TimedOut_FiveMinutesForAll(s, d) == s \in DocSteps /\ d > 5

\* the engine cancels an attempt that runs longer than its timeout
TimedOut(s, d) == s \in DocSteps /\ d > StartToCloseTimeout(s)

----------------------------------------------------------------------------
\* Activities: what one attempt can return or raise

\* the provider whose activity interface the call site of an AI step names
\* (GeminiActivities, OpenAIActivities or AnthropicActivities .process_request)
ProviderOf(s) ==
    CASE s = "gemini" -> "gemini"
      [] s = "openai" -> "openai"
      [] s \in {"anthropic", "synth"} -> "anthropic"

\* mutant: the synthesis step is sent to the OpenAI queue
TaskQueue_SynthOnOpenaiQueue(w, s) ==
    CASE s = "gemini" -> "gemini-ai-queue"
      [] s = "openai" -> "openai-ai-queue"
      [] s = "anthropic" -> "anthropic-ai-queue"
      [] s = "synth" -> "openai-ai-queue"

\* mutant: the synthesis goes to the provider listed first
TaskQueue_FirstListed(w, s) ==
    CASE s = "gemini" -> "gemini-ai-queue"
      [] s = "openai" -> "openai-ai-queue"
      [] s = "anthropic" -> "anthropic-ai-queue"
      [] s = "synth" -> IF providers # <<>> /\ providers[1] = "openai"
                        THEN "openai-ai-queue" ELSE "anthropic-ai-queue"

\* the task_queue argument of the execute_activity call of step s in
\* workflow w
TaskQueue(w, s) ==
    CASE w = "consensus" /\ s = "gemini" -> "gemini-ai-queue"
      [] w = "consensus" /\ s = "openai" -> "openai-ai-queue"
      [] w = "consensus" /\ s = "anthropic" -> "anthropic-ai-queue"
      [] w = "consensus" /\ s = "synth" -> "anthropic-ai-queue"
      [] w = "chain" /\ s = "gemini" -> "gemini-ai-queue"
      [] w = "chain" /\ s = "openai" -> "openai-ai-queue"
      [] w = "chain" /\ s = "anthropic" -> "anthropic-ai-queue"
      [] w = "specialist" /\ s = "gemini" -> "gemini-ai-queue"
      [] w = "specialist" /\ s = "openai" -> "openai-ai-queue"
      [] w = "specialist" /\ s = "anthropic" -> "anthropic-ai-queue"
      [] w = "specialist" /\ s = "synth" -> "anthropic-ai-queue"

\* the provider workers: the queue each polls, the activity implementation
\* it instantiates and the activity names it registers
GeminiWorker ==
    [impl |-> "gemini", task_queue |-> "gemini-ai-queue",
     activities |-> {"process_request"}]
OpenAIWorker ==
    [impl |-> "openai", task_queue |-> "openai-ai-queue",
     activities |-> {"process_request"}]
AnthropicWorker ==
    [impl |-> "anthropic", task_queue |-> "anthropic-ai-queue",
     activities |-> {"process_request"}]
Workers == {GeminiWorker, OpenAIWorker, AnthropicWorker}

\* the workers of the document queue: app/run_worker.py and the top-level
\* run_worker.py each build one, with these activities registered.  The
\* attempts of the steps of DocumentProcessingWorkflow are those of a worker
\* that has the step's activity registered, as the worker of
\* tests/workflows/test_document_workflow.py has
DocumentWorker ==
    [impl |-> "document", task_queue |-> "document-processing-queue",
     activities |-> {"generate_markdown_and_summary", "validate_summary"}]
LegacyWorker ==
    [impl |-> "document", task_queue |-> "document-processing-queue",
     activities |-> {"perform_ocr", "perform_summarization",
                     "perform_azure_ocr", "perform_azure_summarization"}]
DocumentWorkers == {DocumentWorker, LegacyWorker}

\* the workers an activity task of AI step s can be handed to: those that
\* poll the task's queue and have an activity of its name registered
Pollers(s) ==
    {w \in Workers : /\ w.task_queue = TaskQueue(wf, s)
                     /\ "process_request" \in w.activities}

\* mutant: the selected provider validates its own summary
ModelUsed_ValidatesItself(s) ==
    CASE s = "ocr" -> "prebuilt-read"
      [] s = "summ" -> IF "perform_azure_summarization" \in invoked THEN "azure"
                       ELSE "gemini"
      [] s \in {"extract", "validate"} -> IF provider = "azure" THEN "azure" ELSE "gemini"

ModelUsed(s) ==
    CASE s = "ocr" -> "prebuilt-read"
      [] s = "summ" -> IF "perform_azure_summarization" \in invoked THEN "azure"
                       ELSE "gemini"
      [] s = "extract" -> IF provider = "azure" THEN "azure" ELSE "gemini"
      [] s = "validate" -> "azure"

\* model_used of the response: for an AI step, of the worker that ran it
ModelsUsed(s) ==
    IF s \in AISteps THEN {w.impl : w \in Pollers(s)} ELSE {ModelUsed(s)}

\* the summarization activities return the canned result (summary 0) on
\* empty text without calling the provider
RemoteCall(s) ==
    CASE s \in {"ocr", "extract"} -> file_exists
      [] s = "summ" -> input[s][1].text # 0
      [] OTHER -> TRUE

SuccessContents(s) ==
    CASE s \in {"ocr", "extract"} -> IF file_exists THEN Texts ELSE {}
      [] s = "summ" -> IF RemoteCall(s) THEN 1..MaxSummary ELSE {0}
      [] OTHER -> Texts

\* the (markdown_content, summary) pair of the services' process_document
SuccessSummaries(s) ==
    IF s = "extract" THEN 1..MaxSummary ELSE {0}

FailureKinds(s) ==
    CASE s = "ocr" -> IF file_exists THEN {"ValueError", "Other", "Timeout"}
                      ELSE {"FileNotFoundError"}
      [] s = "summ" -> IF RemoteCall(s) THEN {"ValueError", "Other", "Timeout"}
                       ELSE {}
      [] s = "extract" -> IF file_exists THEN {"Other"} ELSE {"FileNotFoundError"}
      [] OTHER -> {"Other"}

----------------------------------------------------------------------------
\* Python dict, insertion-ordered: a sequence of [key, value]

DictKeys(d) == {d[i].key : i \in DOMAIN d}
DictGet(d, k) == d[CHOOSE i \in DOMAIN d : d[i].key = k].value
DictSet(d, k, v) ==
    IF k \in DictKeys(d)
    THEN [i \in DOMAIN d |-> IF d[i].key = k THEN [key |-> k, value |-> v] ELSE d[i]]
    ELSE Append(d, [key |-> k, value |-> v])

----------------------------------------------------------------------------
\* the state of a run that has not started
RunStart ==
    /\ status = "Running"
    /\ pc = "start"
    /\ failure = "none"
    /\ st = [s \in Steps |-> "idle"]
    /\ attempts = [s \in Steps |-> 0]
    /\ waits = [s \in Steps |-> 0]
    /\ hist = [s \in Steps |-> <<>>]
    /\ lastError = [s \in Steps |-> "none"]
    /\ input = [s \in Steps |-> <<>>]
    /\ ret = [s \in Steps |-> NoRet]
    /\ tasks = <<>>
    /\ finished = <<>>
    /\ ocr_result = [full_text |-> 0]
    /\ results = <<>>
    /\ result = NoResult
    /\ crashes = 0
    /\ invoked = {}
    /\ elapsed = [s \in Steps |-> 0]
    /\ delays = [s \in Steps |-> <<>>]

\* no response is being parsed
ParseIdle ==
    /\ fn = "none"
    /\ full_text = <<>>
    /\ api_fails = FALSE
    /\ reply = <<>>
    /\ remote_calls = 0
    /\ out = <<>>

\* no entry point is being called
CallIdle ==
    /\ callee = "none"
    /\ passed = [use_azure |-> "absent", client |-> FALSE]
    /\ env = {}
    /\ server = [connects |-> TRUE, run |-> "ok"]
    /\ at = "done"
    /\ client = {}
    /\ started = <<>>
    /\ raised = "none"
    /\ returned = "none"

\* Adapter objects are built once per process and serve every run of it: the
\* worker's activity implementations and the web application's document_service.
\* Each keeps what its constructor stored.
AdapterObjects ==
    [gemini |-> [model |-> "gemini-1.5-pro", generation_config |-> "default"],
     openai |-> [model |-> "gpt-4-turbo-preview", generation_config |-> "none"],
     anthropic |-> [model |-> "claude-3-opus-20240229", generation_config |-> "none"],
     gemini_service |-> [model |-> "gemini-2.5-pro-exp-03-25", generation_config |-> "default"],
     azure_service |-> [model |-> "AZURE_OPENAI_MODEL_NAME", generation_config |-> "none"]]

\* no pair of runs is in flight
PairIdle ==
    /\ runs = <<>>
    /\ adapters = AdapterObjects

Init ==
    /\ wf \in Workflows
    /\ use_azure \in (IF wf = "doc" THEN BOOLEAN ELSE {FALSE})
    /\ file_exists \in (IF wf \in {"doc", "service"} THEN BOOLEAN ELSE {TRUE})
    /\ providers \in (IF wf = "consensus" THEN ProviderLists
                      ELSE IF wf \in {"chain", "specialist"} THEN ListsNotRead
                      ELSE IF wf = "doc" THEN {<<>>} ELSE {DefaultProviders})
    /\ provider \in (IF wf = "service" THEN {"none", "gemini", "azure", "other"}
                     ELSE {"none"})
    /\ RunStart
    /\ ParseIdle
    /\ CallIdle
    /\ PairIdle


----------------------------------------------------------------------------
\* The engine: attempts of a scheduled activity

\* schedule the steps of set S with the requests reqs[s]
Schedule(S, reqs) ==
    /\ st' = [s \in Steps |-> IF s \in S THEN "scheduled" ELSE st[s]]
    /\ input' = [s \in Steps |-> IF s \in S THEN reqs[s] ELSE input[s]]

\* an activity task of a closed run is not dispatched
CanDispatch(s) == status = "Running" /\ st[s] = "scheduled"

StartAttempt(s) ==
    /\ CanDispatch(s)
    /\ s \in AISteps => Pollers(s) # {}
    /\ st' = [st EXCEPT ![s] = "running"]
    /\ attempts' = [attempts EXCEPT ![s] = Bump(s, @)]
    /\ UNCHANGED <<pairVars, timeVars, callVars, parseVars, inputVars,
                   status, pc, failure, waits, hist, lastError,
                   input, ret, tasks, finished, ocr_result, results, result,
                   crashes, invoked>>

AttemptSucceeds(s) ==
    /\ st[s] = "running"
    /\ \E c \in SuccessContents(s), m \in SuccessSummaries(s), u \in ModelsUsed(s) :
          ret' = [ret EXCEPT ![s] = [content |-> c, summary |-> m,
                                     model_used |-> u]]
    /\ \E d \in Durations(s) :
          /\ ~TimedOut(s, d)
          /\ elapsed' = [elapsed EXCEPT ![s] = d]
    /\ st' = [st EXCEPT ![s] = "completed"]
    /\ hist' = [hist EXCEPT ![s] = Record(s, @, "ok")]
    /\ finished' = IF s \in Range(tasks) THEN Append(finished, s) ELSE finished
    /\ UNCHANGED <<pairVars, delays, callVars, parseVars, inputVars, status, pc, failure,
                   attempts, waits, lastError, input, tasks, ocr_result,
                   results, result, crashes, invoked>>

AttemptFails(s) ==
    /\ st[s] = "running"
    /\ \E k \in FailureKinds(s), d \in Durations(s) :
          /\ (k = "Timeout") = TimedOut(s, d)
          /\ elapsed' = [elapsed EXCEPT ![s] = d]
          /\ lastError' = [lastError EXCEPT ![s] = k]
          /\ hist' = [hist EXCEPT ![s] = Record(s, @, k)]
          /\ IF StepFails(s, k, attempts[s])
             THEN /\ st' = [st EXCEPT ![s] = "failed"]
                  /\ waits' = waits
                  /\ delays' = delays
             ELSE /\ st' = [st EXCEPT ![s] = "scheduled"]
                  /\ waits' = [waits EXCEPT ![s] = Backoff(s, @)]
                  /\ delays' = [delays EXCEPT ![s] = Waited(s, @, waits[s] + 1)]
    /\ UNCHANGED <<pairVars, callVars, parseVars, inputVars, status, pc, failure, attempts,
                   input, ret, tasks, finished, ocr_result, results, result,
                   crashes, invoked>>

----------------------------------------------------------------------------
\* The workflow coroutine

\* the steps the coroutine is awaiting at pc
Awaited ==
    CASE pc = "await_ocr" -> {"ocr"}
      [] pc = "await_summ" -> {"summ"}
      [] pc = "await_gather" -> Range(tasks)
      [] pc = "await_gemini" -> {"gemini"}
      [] pc = "await_openai" -> {"openai"}
      [] pc = "await_anthropic" -> {"anthropic"}
      [] pc = "await_synth" -> {"synth"}
      [] pc = "await_extract" -> {"extract"}
      [] pc = "await_validate" -> {"validate"}
      [] OTHER -> {}

\* mutant: the await returns as soon as one awaited activity has completed
AwaitReturns_FirstCompleted ==
    \A s \in Awaited : \E t \in Awaited : st[t] = "completed"

\* mutant: a failed activity does not raise in the coroutine
AwaitReturns_SwallowsFailure ==
    \A s \in Awaited : st[s] \in {"completed", "failed"}

\* an await returns when every awaited activity has completed
AwaitReturns == \A s \in Awaited : st[s] = "completed"

\* an awaited activity that failed raises in the coroutine, nothing catches
\* it, and the run fails
WorkflowFails ==
    /\ status = "Running"
    /\ \E s \in Awaited :
          /\ st[s] = "failed"
          /\ failure' = lastError[s]
    /\ status' = "Failed"
    /\ pc' = "done"
    /\ UNCHANGED <<pairVars, timeVars, callVars, parseVars, inputVars,
                   st, attempts, waits, hist, lastError, input, ret,
                   tasks, finished, ocr_result, results, result, crashes,
                   invoked>>

\* mutant: the gathered results come in the order the activities completed
Gather_InCompletionOrder(aws) ==
    [i \in DOMAIN aws |-> ret[finished[i]]]

\* asyncio.gather(*aws): the results, in the order of the awaitables passed
Gather(aws) ==
    [i \in DOMAIN aws |-> ret[aws[i]]]

Part(l, t) == [label |-> l, text |-> t]

\* --- DocumentProcessingWorkflow ---

DocStart ==
    /\ wf = "doc" /\ status = "Running" /\ pc = "start"
    /\ Schedule({"ocr"}, [s \in {"ocr"} |-> <<Part("file_path", 0)>>])
    /\ invoked' = invoked \cup {"process_document"}
    /\ pc' = "await_ocr"
    /\ UNCHANGED <<pairVars, timeVars, callVars, parseVars, inputVars,
                   status, failure, attempts, waits, hist,
                   lastError, ret, tasks, finished, ocr_result, results, result,
                   crashes>>

OcrActivityResult(doc_intelligence_result) ==
    [full_text |-> doc_intelligence_result.content]

\* mutant: the Gemini activity is invoked whatever use_azure says
SummarizationActivity_AlwaysGemini(azure) == "perform_summarization"

\* activity_interface.perform_azure_summarization if use_azure else
\* activity_interface.perform_summarization
SummarizationActivity(azure) ==
    IF azure THEN "perform_azure_summarization" ELSE "perform_summarization"

DocAfterOcr ==
    /\ wf = "doc" /\ status = "Running" /\ pc = "await_ocr"
    /\ AwaitReturns
    /\ ocr_result' = OcrActivityResult(ret["ocr"])
    /\ Schedule({"summ"}, [s \in {"summ"} |-> <<Part("full_text", ocr_result'.full_text)>>])
    /\ invoked' = invoked \cup {SummarizationActivity(use_azure)}
    /\ pc' = "await_summ"
    /\ UNCHANGED <<pairVars, timeVars, callVars, parseVars, inputVars,
                   status, failure, attempts, waits, hist,
                   lastError, ret, tasks, finished, results, result, crashes>>

\* mutant: the summary is put where the text belongs
WorkflowResult_SummaryAsText(ocr, summarization_result) ==
    [kind |-> "WorkflowResult",
     ocr_text |-> summarization_result.content,
     summary |-> summarization_result.content]

WorkflowResult(ocr, summarization_result) ==
    [kind |-> "WorkflowResult",
     ocr_text |-> ocr.full_text,
     summary |-> summarization_result.content]

DocAfterSumm ==
    /\ wf = "doc" /\ status = "Running" /\ pc = "await_summ"
    /\ AwaitReturns
    /\ result' = WorkflowResult(ocr_result, ret["summ"])
    /\ status' = "Succeeded"
    /\ pc' = "done"
    /\ UNCHANGED <<pairVars, timeVars, callVars, parseVars, inputVars,
                   failure, st, attempts, waits, hist, lastError,
                   input, ret, tasks, finished, ocr_result, results, crashes,
                   invoked>>

\* --- AIConsensusWorkflow ---

\* the activities appended to tasks: one per provider named in the list, in
\* the fixed order gemini, openai, anthropic of the three if statements
GatherTasks(provs) ==
    SelectSeq(DefaultProviders, LAMBDA p : p \in Range(provs))

ConsensusStart ==
    /\ wf = "consensus" /\ status = "Running" /\ pc = "start"
    /\ tasks' = GatherTasks(providers)
    /\ Schedule(Range(tasks'), [s \in Range(tasks') |-> <<Part("initial_prompt", 0)>>])
    /\ pc' = "await_gather"
    /\ UNCHANGED <<pairVars, timeVars, callVars, parseVars, inputVars,
                   status, failure, attempts, waits, hist, lastError,
                   ret, finished, ocr_result, results, result, crashes,
                   invoked>>

\* for i, provider in enumerate(input.providers): results[provider] = responses[i]
RECURSIVE BuildResults(_, _, _, _)
BuildResults(provs, responses, i, d) ==
    IF i > Len(provs) THEN d
    ELSE BuildResults(provs, responses, i + 1, DictSet(d, provs[i], responses[i]))

Upper(p) ==
    CASE p = "gemini" -> "GEMINI"
      [] p = "openai" -> "OPENAI"
      [] p = "anthropic" -> "ANTHROPIC"
      [] OTHER -> "OTHER"

\* for provider, response in results.items(): "**{provider.upper()} Response:**\n{response.content}"
ConsensusPrompt(d) ==
    [i \in DOMAIN d |-> Part(Upper(d[i].key), d[i].value.content)]

ConsensusAfterGather ==
    /\ wf = "consensus" /\ status = "Running" /\ pc = "await_gather"
    /\ AwaitReturns
    /\ Len(providers) <= Len(tasks)
    /\ LET responses == Gather(tasks)
       IN  results' = BuildResults(providers, responses, 1, <<>>)
    /\ Schedule({"synth"}, [s \in {"synth"} |-> ConsensusPrompt(results')])
    /\ pc' = "await_synth"
    /\ UNCHANGED <<pairVars, timeVars, callVars, parseVars, inputVars,
                   status, failure, attempts, waits, hist, lastError,
                   ret, tasks, finished, ocr_result, result, crashes, invoked>>

\* responses[i] raises IndexError when the list has more entries than tasks
\* were launched; the exception is no activity failure, so the workflow task
\* fails and the run stays open
ConsensusIndexError ==
    /\ wf = "consensus" /\ status = "Running" /\ pc = "await_gather"
    /\ AwaitReturns
    /\ Len(providers) > Len(tasks)
    /\ pc' = "task_failed"
    /\ UNCHANGED <<pairVars, timeVars, callVars, parseVars, inputVars,
                   status, failure, st, attempts, waits, hist,
                   lastError, input, ret, tasks, finished, ocr_result, results, result,
                   crashes, invoked>>

MultiAIWorkflowResult(d, consensus, analysis) ==
    [kind |-> "MultiAIWorkflowResult",
     results |-> d,
     consensus |-> consensus.content,
     analysis |-> analysis]

ConsensusAfterSynth ==
    /\ wf = "consensus" /\ status = "Running" /\ pc = "await_synth"
    /\ AwaitReturns
    /\ result' = MultiAIWorkflowResult(results, ret["synth"], "consensus")
    /\ status' = "Succeeded"
    /\ pc' = "done"
    /\ UNCHANGED <<pairVars, timeVars, callVars, parseVars, inputVars,
                   failure, st, attempts, waits, hist, lastError,
                   input, ret, tasks, finished, ocr_result, results, crashes,
                   invoked>>

\* --- AIChainWorkflow ---

ChainStart ==
    /\ wf = "chain" /\ status = "Running" /\ pc = "start"
    /\ Schedule({"gemini"}, [s \in {"gemini"} |-> <<Part("initial_prompt", 0)>>])
    /\ pc' = "await_gemini"
    /\ UNCHANGED <<pairVars, timeVars, callVars, parseVars, inputVars,
                   status, failure, attempts, waits, hist, lastError,
                   ret, tasks, finished, ocr_result, results, result, crashes,
                   invoked>>

RefinePrompt(gemini_response) ==
    <<Part("initial_prompt", 0), Part("Initial analysis", gemini_response.content)>>

ChainAfterGemini ==
    /\ wf = "chain" /\ status = "Running" /\ pc = "await_gemini"
    /\ AwaitReturns
    /\ results' = DictSet(results, "gemini", ret["gemini"])
    /\ Schedule({"openai"}, [s \in {"openai"} |-> RefinePrompt(ret["gemini"])])
    /\ pc' = "await_openai"
    /\ UNCHANGED <<pairVars, timeVars, callVars, parseVars, inputVars,
                   status, failure, attempts, waits, hist, lastError,
                   ret, tasks, finished, ocr_result, result, crashes, invoked>>

\* mutant: the validation prompt repeats the initial analysis in place of
\* the refined one
ValidatePrompt_RepeatsInitial(gemini_response, openai_response) ==
    <<Part("initial_prompt", 0), Part("Initial", gemini_response.content),
      Part("Refined", gemini_response.content)>>

ValidatePrompt(gemini_response, openai_response) ==
    <<Part("initial_prompt", 0), Part("Initial", gemini_response.content),
      Part("Refined", openai_response.content)>>

ChainAfterOpenai ==
    /\ wf = "chain" /\ status = "Running" /\ pc = "await_openai"
    /\ AwaitReturns
    /\ results' = DictSet(results, "openai", ret["openai"])
    /\ Schedule({"anthropic"},
                [s \in {"anthropic"} |-> ValidatePrompt(ret["gemini"], ret["openai"])])
    /\ pc' = "await_anthropic"
    /\ UNCHANGED <<pairVars, timeVars, callVars, parseVars, inputVars,
                   status, failure, attempts, waits, hist, lastError,
                   ret, tasks, finished, ocr_result, result, crashes, invoked>>

ChainAfterAnthropic ==
    /\ wf = "chain" /\ status = "Running" /\ pc = "await_anthropic"
    /\ AwaitReturns
    /\ results' = DictSet(results, "anthropic", ret["anthropic"])
    /\ result' = MultiAIWorkflowResult(results', ret["anthropic"], "chain")
    /\ status' = "Succeeded"
    /\ pc' = "done"
    /\ UNCHANGED <<pairVars, timeVars, callVars, parseVars, inputVars,
                   failure, st, attempts, waits, hist, lastError,
                   input, ret, tasks, finished, ocr_result, crashes, invoked>>

\* --- AISpecialistWorkflow ---

SpecialistStart ==
    /\ wf = "specialist" /\ status = "Running" /\ pc = "start"
    /\ tasks' = <<"gemini", "openai", "anthropic">>
    /\ Schedule(Range(tasks'),
                [s \in Range(tasks') |->
                    <<Part(CASE s = "gemini" -> "creative"
                             [] s = "openai" -> "Technical analysis requested"
                             [] s = "anthropic" -> "Analytical task", 0)>>])
    /\ pc' = "await_gather"
    /\ UNCHANGED <<pairVars, timeVars, callVars, parseVars, inputVars,
                   status, failure, attempts, waits, hist, lastError,
                   ret, finished, ocr_result, results, result, crashes,
                   invoked>>

SynthesisPrompt(responses) ==
    <<Part("Gemini", responses[1].content),
      Part("OpenAI", responses[2].content),
      Part("Anthropic", responses[3].content)>>

SpecialistAfterGather ==
    /\ wf = "specialist" /\ status = "Running" /\ pc = "await_gather"
    /\ AwaitReturns
    /\ LET responses == Gather(tasks)
       IN  /\ results' = DictSet(DictSet(DictSet(results,
                             "gemini", responses[1]),
                             "openai", responses[2]),
                             "anthropic", responses[3])
           /\ Schedule({"synth"}, [s \in {"synth"} |-> SynthesisPrompt(responses)])
    /\ pc' = "await_synth"
    /\ UNCHANGED <<pairVars, timeVars, callVars, parseVars, inputVars,
                   status, failure, attempts, waits, hist, lastError,
                   ret, tasks, finished, ocr_result, result, crashes, invoked>>

SpecialistAfterSynth ==
    /\ wf = "specialist" /\ status = "Running" /\ pc = "await_synth"
    /\ AwaitReturns
    /\ result' = MultiAIWorkflowResult(results, ret["synth"], "specialist")
    /\ status' = "Succeeded"
    /\ pc' = "done"
    /\ UNCHANGED <<pairVars, timeVars, callVars, parseVars, inputVars,
                   failure, st, attempts, waits, hist, lastError,
                   input, ret, tasks, finished, ocr_result, results, crashes,
                   invoked>>

\* --- DocumentService.process_document ---

ServiceStart ==
    /\ wf = "service" /\ status = "Running" /\ pc = "start"
    /\ Schedule({"extract"}, [s \in {"extract"} |-> <<Part("file_path", 0)>>])
    /\ pc' = "await_extract"
    /\ UNCHANGED <<pairVars, timeVars, callVars, parseVars, inputVars,
                   status, failure, attempts, waits, hist, lastError,
                   ret, tasks, finished, ocr_result, results, result, crashes,
                   invoked>>

ServiceAfterExtract ==
    /\ wf = "service" /\ status = "Running" /\ pc = "await_extract"
    /\ AwaitReturns
    /\ Schedule({"validate"}, [s \in {"validate"} |-> <<Part("summary", ret["extract"].summary)>>])
    /\ pc' = "await_validate"
    /\ UNCHANGED <<pairVars, timeVars, callVars, parseVars, inputVars,
                   status, failure, attempts, waits, hist, lastError,
                   ret, tasks, finished, ocr_result, results, result, crashes,
                   invoked>>

ServiceResult(extracted, validation_result) ==
    [kind |-> "dict",
     markdown_content |-> extracted.content,
     summary |-> extracted.summary,
     validation_result |-> validation_result.content,
     provider_used |-> IF provider = "none" THEN "gemini" ELSE provider]

ServiceAfterValidate ==
    /\ wf = "service" /\ status = "Running" /\ pc = "await_validate"
    /\ AwaitReturns
    /\ result' = ServiceResult(ret["extract"], ret["validate"])
    /\ status' = "Succeeded"
    /\ pc' = "done"
    /\ UNCHANGED <<pairVars, timeVars, callVars, parseVars, inputVars,
                   failure, st, attempts, waits, hist, lastError,
                   input, ret, tasks, finished, ocr_result, results, crashes,
                   invoked>>

\* --- crash of the orchestrating process ---

\* The worker process of a Temporal workflow dies: the coroutine and its
\* locals are lost, the engine's event history (what was scheduled, what
\* completed and with which result) is kept by the server. The crash is
\* modelled for the sequential workflows and the service.
WorkerCrash ==
    /\ wf \in {"doc", "chain"} /\ status = "Running"
    /\ pc \in {"await_ocr", "await_summ", "await_gemini", "await_openai",
               "await_anthropic"}
    /\ crashes < MaxCrashes
    /\ crashes' = crashes + 1
    /\ pc' = "crashed"
    /\ ocr_result' = [full_text |-> 0]
    /\ results' = <<>>
    /\ UNCHANGED <<pairVars, timeVars, callVars, parseVars, inputVars,
                   status, failure, st, attempts, waits, hist,
                   lastError, input, ret, tasks, finished, result, invoked>>

\* the await the coroutine reaches when run() is replayed against the event
\* history: every execute_activity whose completion is recorded returns the
\* recorded result, the first one without a recorded completion blocks
ReplayPc ==
    IF wf = "doc"
    THEN IF st["summ"] # "idle" THEN "await_summ" ELSE "await_ocr"
    ELSE IF st["anthropic"] # "idle" THEN "await_anthropic"
         ELSE IF st["openai"] # "idle" THEN "await_openai"
         ELSE "await_gemini"

\* a worker picks the run up again and replays run() from its first line
Replay ==
    /\ wf \in {"doc", "chain"} /\ status = "Running" /\ pc = "crashed"
    /\ pc' = ReplayPc
    /\ ocr_result' = IF pc' = "await_summ" THEN OcrActivityResult(ret["ocr"])
                     ELSE ocr_result
    /\ results' =
         CASE pc' = "await_openai" -> DictSet(<<>>, "gemini", ret["gemini"])
           [] pc' = "await_anthropic" ->
                DictSet(DictSet(<<>>, "gemini", ret["gemini"]), "openai", ret["openai"])
           [] OTHER -> <<>>
    /\ UNCHANGED <<pairVars, timeVars, callVars, parseVars, inputVars,
                   status, failure, st, attempts, waits, hist,
                   lastError, input, ret, tasks, finished, result, crashes,
                   invoked>>

\* The process running DocumentService.process_document dies: the method
\* keeps its step results in local variables only, so all of them are lost
\* with the provider call in flight.
ServiceCrash ==
    /\ wf = "service" /\ status = "Running"
    /\ pc \in {"await_extract", "await_validate"}
    /\ crashes < MaxCrashes
    /\ crashes' = crashes + 1
    /\ pc' = "crashed"
    /\ st' = [s \in Steps |-> "idle"]
    /\ attempts' = [s \in Steps |-> 0]
    /\ hist' = [s \in Steps |-> <<>>]
    /\ lastError' = [s \in Steps |-> "none"]
    /\ input' = [s \in Steps |-> <<>>]
    /\ ret' = [s \in Steps |-> NoRet]
    /\ UNCHANGED <<pairVars, timeVars, callVars, parseVars, inputVars,
                   status, failure, waits, tasks, finished,
                   ocr_result, results, result, invoked>>

\* the document is processed again: process_document runs from its first line
ServiceRerun ==
    /\ wf = "service" /\ status = "Running" /\ pc = "crashed"
    /\ pc' = "start"
    /\ UNCHANGED <<pairVars, timeVars, callVars, parseVars, inputVars,
                   status, failure, st, attempts, waits, hist,
                   lastError, input, ret, tasks, finished, ocr_result, results,
                   result, crashes, invoked>>

----------------------------------------------------------------------------
WorkflowStep ==
    \/ DocStart \/ DocAfterOcr \/ DocAfterSumm
    \/ ConsensusStart \/ ConsensusAfterGather \/ ConsensusIndexError
    \/ ConsensusAfterSynth
    \/ ChainStart \/ ChainAfterGemini \/ ChainAfterOpenai \/ ChainAfterAnthropic
    \/ SpecialistStart \/ SpecialistAfterGather \/ SpecialistAfterSynth
    \/ ServiceStart \/ ServiceAfterExtract \/ ServiceAfterValidate
    \/ WorkflowFails
    \/ Replay \/ ServiceRerun

AttemptEnds(s) == AttemptSucceeds(s) \/ AttemptFails(s)

Next ==
    \/ \E s \in Steps : StartAttempt(s)
    \/ \E s \in Steps : AttemptSucceeds(s)
    \/ \E s \in Steps : AttemptFails(s)
    \/ DocStart
    \/ DocAfterOcr
    \/ DocAfterSumm
    \/ ConsensusStart
    \/ ConsensusAfterGather
    \/ ConsensusIndexError
    \/ ConsensusAfterSynth
    \/ ChainStart
    \/ ChainAfterGemini
    \/ ChainAfterOpenai
    \/ ChainAfterAnthropic
    \/ SpecialistStart
    \/ SpecialistAfterGather
    \/ SpecialistAfterSynth
    \/ ServiceStart
    \/ ServiceAfterExtract
    \/ ServiceAfterValidate
    \/ WorkflowFails
    \/ WorkerCrash
    \/ Replay
    \/ ServiceCrash
    \/ ServiceRerun

Spec == Init /\ [][Next]_vars

\* Every attempt ends (start_to_close_timeout bounds it), a scheduled attempt
\* is started by a polling worker, and the coroutine runs when it can.
FairSpec ==
    /\ Spec
    /\ \A s \in Steps : WF_vars(StartAttempt(s)) /\ WF_vars(AttemptEnds(s))
    /\ WF_vars(WorkflowStep)

----------------------------------------------------------------------------
\* The summarization and validation functions, applied to one response
\*
\* A text is a sequence of tokens. A token is a fragment of text that holds
\* no complete JSON value ("word": no brace; "open": starts with '{';
\* "close": ends with '}'; "fence": ```), or one complete JSON value
\* (object, array, number). Values inside an object are named by a code.

\* longest summarization response, in tokens
MaxTokens == 3
\* longest validation response, in tokens
MaxValidateTokens == 2
\* applications of the function to the same response
MaxApplications == 2
\* raw_response_content[:500]
FallbackPrefixLen == 500

Frag(t) == [type |-> t, summary |-> "-", keywords |-> "-"]
Word == Frag("word")
\* a JSON object: summary and keywords are codes, "absent" = no such key;
\* "str:..." is a string, the rest names the text inside the string; "list"
\* is a list the provider wrote, "[]" the empty list the code writes
Obj(s, k) == [type |-> "object", summary |-> s, keywords |-> k]
SummaryCodes ==
    {"absent", "num", "str:plain", "str:obj_full", "str:obj_nokw", "str:num",
     "str:fenced"}
KeywordsCodes == {"absent", "list"}
Objects == {Obj(s, k) : s \in SummaryCodes, k \in KeywordsCodes}
Tokens == {Frag(t) : t \in {"word", "open", "close", "fence", "array", "number"}}
              \cup Objects
Responses == UNION {[1..n -> Tokens] : n \in 0..MaxTokens}

IsStr(code) ==
    code \in {"str:plain", "str:obj_full", "str:obj_nokw", "str:num", "str:fenced"}
HasBoth(v) == v.summary # "absent" /\ v.keywords # "absent"

\* json.loads(text): the value, or JSONDecodeError
Loads(text) ==
    IF Len(text) = 1 /\ text[1].type \in {"object", "array", "number"}
    THEN [ok |-> TRUE, value |-> text[1]]
    ELSE [ok |-> FALSE, value |-> Word]

\* json.loads of the text inside a string value
LoadsStr(code) ==
    CASE code = "str:obj_full" -> [ok |-> TRUE, value |-> Obj("str:plain", "list")]
      [] code = "str:obj_nokw" -> [ok |-> TRUE, value |-> Obj("str:plain", "absent")]
      [] code = "str:num" -> [ok |-> TRUE, value |-> Frag("number")]
      [] OTHER -> [ok |-> FALSE, value |-> Word]

\* results: the summary of summary_json is a value of the parsed object,
\* a prefix of the raw response, the str() of the parsed object or a literal
NoObj == Obj("-", "-")
FromJson(code) == [form |-> "json", code |-> code, text |-> <<>>, of |-> NoObj]
RawPrefix(raw) ==
    [form |-> "raw", code |-> "-",
     text |-> SubSeq(raw, 1, Min(Len(raw), FallbackPrefixLen)), of |-> NoObj]
Str(v) == [form |-> "str", code |-> "-", text |-> <<>>, of |-> v]
Literal(l) == [form |-> "literal", code |-> l, text |-> <<>>, of |-> NoObj]

Return(summary, keywords) ==
    [outcome |-> "return", error |-> "none",
     summary_json |-> [summary |-> summary, keywords |-> keywords]]
Raise(e) ==
    [outcome |-> "raise", error |-> e,
     summary_json |-> [summary |-> Literal("none"), keywords |-> "-"]]

\* mutant: the fallback remembers an earlier application and returns an empty
\* summary the second time
Unparseable_RemembersFirst(raw) ==
    IF out = <<>> THEN Return(RawPrefix(raw), "[]") ELSE Return(RawPrefix(<<>>), "[]")

\* except json.JSONDecodeError: {"summary": raw_response_content[:500], "keywords": []}
Unparseable(raw) == Return(RawPrefix(raw), "[]")

\* except ValueError: {"summary": str(summary_json), "keywords": []}
InvalidStructure(summary_json) == Return(Str(summary_json), "[]")

\* the structure validation both adapters apply to the parsed value
Validated(summary_json) ==
    IF summary_json.type = "object" /\ HasBoth(summary_json)
    THEN Return(FromJson(summary_json.summary), summary_json.keywords)
    ELSE IF summary_json.type # "object"
    THEN Raise("AttributeError")       \* summary_json.get on a list or a number
    ELSE IF IsStr(summary_json.summary)
    THEN LET nested_json == LoadsStr(summary_json.summary)
         IN  IF nested_json.ok /\ nested_json.value.type = "object"
                /\ HasBoth(nested_json.value)
             THEN Return(FromJson(nested_json.value.summary),
                         nested_json.value.keywords)
             ELSE InvalidStructure(summary_json)
    ELSE InvalidStructure(summary_json)

StartsWithBrace(t) == t.type \in {"open", "object"}
EndsWithBrace(t) == t.type \in {"close", "object"}

\* an object whose summary string quotes a fenced block, "... ```{x}``` ..."
HasFence(t) == t.type = "object" /\ t.summary = "str:fenced"

\* what the pattern captures when its match ends inside such a string: a
\* text from a '{' to the '}' of the quoted block, which is no JSON
Broken == <<Frag("open"), Frag("close")>>

\* re.search(r"```(?:json)?\s*({.*?})\s*```", raw, re.DOTALL).
\* Closers(raw, i): where a match that opens at the fence raw[i] can end: at
\* a later fence that follows a '}', or inside a later object at the fence
\* its string quotes
Closers(raw, i) ==
    {p \in DOMAIN raw :
        /\ p > i
        /\ \/ HasFence(raw[p])
           \/ p > i + 1 /\ raw[p].type = "fence" /\ EndsWithBrace(raw[p - 1])}

\* the positions a match can start at: a fence followed by a '{' that some
\* closer follows, or the fence quoted inside an object's string
FenceMatches(raw) ==
    {i \in DOMAIN raw :
        \/ HasFence(raw[i])
        \/ /\ raw[i].type = "fence" /\ i < Len(raw)
           /\ StartsWithBrace(raw[i + 1])
           /\ Closers(raw, i) # {}}

Least(S) == CHOOSE i \in S : \A j \in S : i <= j

\* match.group(1) of the leftmost match, ended at the first closer
FenceMatch(raw) ==
    LET i == Least(FenceMatches(raw))
    IN  IF HasFence(raw[i]) THEN Broken
        ELSE LET p == Least(Closers(raw, i))
             IN  IF HasFence(raw[p]) THEN Broken
                 ELSE SubSeq(raw, i + 1, p - 1)

\* raw.find('{') and raw.rfind('}'), 0 when there is none
Find(raw) ==
    IF \E i \in DOMAIN raw : StartsWithBrace(raw[i])
    THEN CHOOSE i \in DOMAIN raw :
            StartsWithBrace(raw[i]) /\ \A j \in 1..(i - 1) : ~StartsWithBrace(raw[j])
    ELSE 0
RFind(raw) ==
    IF \E i \in DOMAIN raw : EndsWithBrace(raw[i])
    THEN CHOOSE i \in DOMAIN raw :
            EndsWithBrace(raw[i]) /\ \A j \in (i + 1)..Len(raw) : ~EndsWithBrace(raw[j])
    ELSE 0

\* the json_string of the Gemini adapter, <<>> when none is found
JsonString(raw) ==
    IF Loads(raw).ok THEN raw
    ELSE IF FenceMatches(raw) # {}
    THEN FenceMatch(raw)
    ELSE IF Find(raw) # 0 /\ RFind(raw) # 0 /\ Find(raw) <= RFind(raw)
    THEN SubSeq(raw, Find(raw), RFind(raw))
    ELSE <<>>

\* GeminiActivitiesImpl.perform_summarization from the response on
ParseGemini(raw) ==
    IF raw = <<>> THEN Return(Literal("Summarization failed."), "[]")
    ELSE LET json_string == JsonString(raw)
         IN  IF json_string = <<>> THEN Unparseable(raw)
             ELSE IF Loads(json_string).ok THEN Validated(Loads(json_string).value)
             ELSE Unparseable(raw)

\* AzureOpenAIActivitiesImpl.perform_azure_summarization from the response on
ParseAzure(raw) ==
    IF raw = <<>> THEN Return(Literal("Summarization failed."), "[]")
    ELSE IF Loads(raw).ok THEN Validated(Loads(raw).value)
    ELSE Unparseable(raw)

\* mutant: the provider is asked even when there is no text
SkipsProvider_Never(text) == FALSE

\* if not ocr_result.full_text: return the canned result
SkipsProvider(text) == text = <<>>

\* --- validate_summary ---

VObj(a, s, i) ==
    [type |-> "object", is_accurate |-> a, suggested_improvements |-> s,
     improved_summary |-> i]
VTokens ==
    {[VObj("-", "-", "-") EXCEPT !.type = t] : t \in {"word", "array", "number"}}
      \cup {VObj(a, s, i) : a \in {"absent", "true", "false", "str"},
                            s \in {"absent", "list", "str"},
                            i \in {"absent", "str"}}
ValidationResponses == UNION {[1..n -> VTokens] : n \in 0..MaxValidateTokens}

VReturn(a, s, i) ==
    [outcome |-> "return", error |-> "none",
     validation |-> [is_accurate |-> a, suggested_improvements |-> s,
                     improved_summary |-> i]]
VRaise(e) ==
    [outcome |-> "raise", error |-> e,
     validation |-> [is_accurate |-> "-", suggested_improvements |-> "-",
                     improved_summary |-> "-"]]

\* validation_json.get(key, default)
Get(code, default) == IF code = "absent" THEN default ELSE code

ParseValidation(raw) ==
    IF raw = <<>> THEN VReturn("false", "[Could not validate the summary.]", "none")
    ELSE IF ~Loads(raw).ok
    THEN VReturn("false", "[Error parsing validation response.]", "none")
    ELSE LET validation_json == Loads(raw).value
         IN  IF validation_json.type # "object" THEN VRaise("AttributeError")
             ELSE VReturn(Get(validation_json.is_accurate, "false"),
                          Get(validation_json.suggested_improvements, "[]"),
                          Get(validation_json.improved_summary, "none"))

\* --- process_request of the three AI adapters ---

AIFns ==
    {"GeminiActivitiesImpl.process_request", "OpenAIActivitiesImpl.process_request",
     "AnthropicActivitiesImpl.process_request"}

\* a response without text: no choice / content block / candidate at all,
\* or a message whose content is None
NoChoices == Frag("no_choices")
NullContent == Frag("null")

\* the responses of a provider's API: a text (<<>> the empty one) or one of
\* the shapes without text its SDK can deliver
AIResponses(f) ==
    {<<>>, <<Word>>, <<NoChoices>>}
        \cup (IF f = "AnthropicActivitiesImpl.process_request" THEN {}
              ELSE {<<NullContent>>})

\* a response whose text is empty or missing
Falsy(raw) == raw \in {<<>>, <<NoChoices>>, <<NullContent>>}

\* AIResponse(content=...), content a text of the response or a literal
Text(raw) == [form |-> "raw", code |-> "-", text |-> raw, of |-> NoObj]
AIReturn(content) == [outcome |-> "return", error |-> "none", content |-> content]
AIRaise(e) == [outcome |-> "raise", error |-> e, content |-> Literal("none")]

\* if not response.text: the canned content
GeminiProcessRequest(raw) ==
    IF Falsy(raw)
    THEN AIReturn(Literal("Response was blocked due to safety filters"))
    ELSE AIReturn(Text(raw))

\* content=response.choices[0].message.content: IndexError on an empty
\* choices list; AIResponse.content is a str, so None fails its validation
OpenAIProcessRequest(raw) ==
    IF raw = <<NoChoices>> THEN AIRaise("IndexError")
    ELSE IF raw = <<NullContent>> THEN AIRaise("ValidationError")
    ELSE AIReturn(Text(raw))

\* content=response.content[0].text if response.content else ""
AnthropicProcessRequest(raw) ==
    IF raw = <<NoChoices>> THEN AIReturn(Literal("")) ELSE AIReturn(Text(raw))

ProcessRequestOf(f, raw) ==
    CASE f = "GeminiActivitiesImpl.process_request" -> GeminiProcessRequest(raw)
      [] f = "OpenAIActivitiesImpl.process_request" -> OpenAIProcessRequest(raw)
      [] f = "AnthropicActivitiesImpl.process_request" -> AnthropicProcessRequest(raw)

\* --- one function, one response, applied MaxApplications times ---

Summarizers == {"perform_summarization", "perform_azure_summarization"}
Fns == {"perform_summarization", "perform_azure_summarization", "validate_summary"}

ParseInit ==
    /\ fn \in Fns \cup AIFns
    /\ full_text \in (IF fn \in Summarizers THEN {<<>>, <<Word>>} ELSE {<<Word>>})
    /\ api_fails \in (IF SkipsProvider(full_text) THEN {FALSE} ELSE BOOLEAN)
    /\ reply \in (IF SkipsProvider(full_text) \/ api_fails THEN {<<>>}
                  ELSE IF fn = "validate_summary" THEN ValidationResponses
                  ELSE IF fn \in AIFns THEN AIResponses(fn)
                  ELSE Responses)
    /\ remote_calls = 0
    /\ out = <<>>
    /\ wf = "doc"
    /\ use_azure = (fn = "perform_azure_summarization")
    /\ file_exists = TRUE
    /\ providers = <<>>
    /\ provider = "none"
    /\ RunStart
    /\ CallIdle
    /\ PairIdle

\* the body of a summarization activity, parsed being what the adapter's
\* parsing makes of the response
Summarize(parsed) ==
    IF SkipsProvider(full_text)
    THEN /\ out' = Append(out, Return(Literal("No text extracted."), "[]"))
         /\ remote_calls' = remote_calls
    ELSE /\ remote_calls' = remote_calls + 1
         /\ out' = Append(out, IF api_fails THEN Raise("Other") ELSE parsed)

PerformSummarization ==
    /\ fn = "perform_summarization" /\ Len(out) < MaxApplications
    /\ Summarize(ParseGemini(reply))
    /\ UNCHANGED <<pairVars, callVars, runVars, fn, full_text, api_fails, reply>>

PerformAzureSummarization ==
    /\ fn = "perform_azure_summarization" /\ Len(out) < MaxApplications
    /\ Summarize(ParseAzure(reply))
    /\ UNCHANGED <<pairVars, callVars, runVars, fn, full_text, api_fails, reply>>

ValidateSummary ==
    /\ fn = "validate_summary" /\ Len(out) < MaxApplications
    /\ remote_calls' = remote_calls + 1
    /\ out' = Append(out, IF api_fails THEN VRaise("Other") ELSE ParseValidation(reply))
    /\ UNCHANGED <<pairVars, callVars, runVars, fn, full_text, api_fails, reply>>

ProcessRequest ==
    /\ fn \in AIFns /\ Len(out) < MaxApplications
    /\ remote_calls' = remote_calls + 1
    /\ out' = Append(out, IF api_fails THEN AIRaise("Other")
                          ELSE ProcessRequestOf(fn, reply))
    /\ UNCHANGED <<pairVars, callVars, runVars, fn, full_text, api_fails, reply>>

ParseNext ==
    \/ PerformSummarization
    \/ PerformAzureSummarization
    \/ ValidateSummary
    \/ ProcessRequest

ParseSpec == ParseInit /\ [][ParseNext]_vars

----------------------------------------------------------------------------
\* Entry points: the starters of DocumentProcessingWorkflow and the
\* constructors of the provider adapters.  One behaviour is one call.

\* workflow_runner.TASK_QUEUE
TASK_QUEUE == "document-processing-queue"
\* the task_queue argument scripts/start_workflow.py passes
ScriptTaskQueue == "document-processing-queue"

Starters == {"start_document_workflow", "main"}

\* the parameters of a starter's signature
Parameters(f) ==
    CASE f = "start_document_workflow" -> {"file_path", "client", "workflow_id"}
      [] f = "main" -> {"use_azure"}

\* the keywords of the call
Keywords(p) ==
    (IF p.use_azure # "absent" THEN {"use_azure"} ELSE {})
        \cup (IF p.client THEN {"client"} ELSE {})

\* the use_azure parameter of main, False by default
MainUseAzure(p) == IF p.use_azure = "True" THEN "True" ELSE "False"

\* the args list a starter hands to client.start_workflow
WorkflowArgs(f, p) ==
    CASE f = "start_document_workflow" -> <<"doc_input">>
      [] f = "main" -> <<"doc_input", MainUseAzure(p)>>

StartTaskQueue(f) ==
    CASE f = "start_document_workflow" -> TASK_QUEUE
      [] f = "main" -> ScriptTaskQueue

\* the use_azure parameter DocumentProcessingWorkflow.run is bound to when
\* started with args: the second argument, False when there is none
RunUseAzure(args) == IF Len(args) >= 2 THEN args[2] = "True" ELSE FALSE

\* how the workflow run the server reports can have ended
RunOutcomes == {"ok", "WorkflowFailureError", "ValueError"}

\* the call binds its arguments: a keyword the signature does not have is
\* a TypeError
Call ==
    /\ callee \in Starters /\ at = "call"
    /\ IF Keywords(passed) \subseteq Parameters(callee)
       THEN /\ at' = IF passed.client THEN "start" ELSE "connect"
            /\ client' = IF passed.client THEN {"given"} ELSE {}
            /\ raised' = raised
       ELSE /\ at' = "done"
            /\ client' = client
            /\ raised' = "TypeError"
    /\ UNCHANGED <<pairVars, runVars, parseVars, callee, passed, env, server, started,
                   returned>>

\* await Client.connect(...)
Connect ==
    /\ callee \in Starters /\ at = "connect"
    /\ IF server.connects
       THEN /\ client' = {"connected"}
            /\ at' = "start"
            /\ raised' = raised
       ELSE /\ client' = client
            /\ at' = "done"
            /\ raised' = "ConnectionError"
    /\ UNCHANGED <<pairVars, runVars, parseVars, callee, passed, env, server, started,
                   returned>>

\* handle = await client.start_workflow(...)
StartWorkflow ==
    /\ callee \in Starters /\ at = "start"
    /\ started' = Append(started,
                         [workflow |-> "DocumentProcessingWorkflow.run",
                          args |-> WorkflowArgs(callee, passed),
                          task_queue |-> StartTaskQueue(callee)])
    /\ at' = "result"
    /\ UNCHANGED <<pairVars, runVars, parseVars, callee, passed, env, server, client,
                   raised, returned>>

\* mutant: a failed run is reported as a missing result
HandleResult_ReturnsNone(run) ==
    IF run = "ok" THEN [raised |-> "none", returned |-> "WorkflowResult"]
    ELSE [raised |-> "none", returned |-> "None"]

\* await handle.result(): the run's result, or the error it raises
HandleResult(run) ==
    IF run = "ok" THEN [raised |-> "none", returned |-> "WorkflowResult"]
    ELSE [raised |-> run, returned |-> "none"]

AwaitResult ==
    /\ callee \in Starters /\ at = "result"
    /\ raised' = HandleResult(server.run).raised
    /\ returned' = HandleResult(server.run).returned
    /\ at' = "done"
    /\ UNCHANGED <<pairVars, runVars, parseVars, callee, passed, env, server, client,
                   started>>

\* the provider adapters and services; the three GeminiActivitiesImpl
\* classes are told apart by their modules
Constructors ==
    {"DocumentIntelligenceActivitiesImpl",
     "gemini_activities.GeminiActivitiesImpl",
     "app.activities.gemini_activities.GeminiActivitiesImpl",
     "app.activities.gemini_ai_activities.GeminiActivitiesImpl",
     "AzureOpenAIActivitiesImpl", "OpenAIActivitiesImpl",
     "AnthropicActivitiesImpl", "GeminiService", "AzureService",
     "DocumentService"}

EnvNames ==
    {"GEMINI_API_KEY", "OPENAI_API_KEY", "ANTHROPIC_API_KEY",
     "AZURE_OPENAI_API_KEY", "AZURE_OPENAI_ENDPOINT", "AZURE_OPENAI_MODEL_NAME",
     "AZURE_DOCUMENT_INTELLIGENCE_KEY", "AZURE_DOCUMENT_INTELLIGENCE_ENDPOINT"}

\* the names __init__ reads with os.getenv and requires to be non-empty.
\* gemini_activities.GeminiActivitiesImpl reads none: its api_key is a
\* string literal of the module
Checked(c) ==
    CASE c = "DocumentIntelligenceActivitiesImpl" ->
             {"AZURE_DOCUMENT_INTELLIGENCE_KEY",
              "AZURE_DOCUMENT_INTELLIGENCE_ENDPOINT"}
      [] c = "gemini_activities.GeminiActivitiesImpl" -> {}
      [] c = "app.activities.gemini_activities.GeminiActivitiesImpl" ->
             {"GEMINI_API_KEY"}
      [] c = "app.activities.gemini_ai_activities.GeminiActivitiesImpl" ->
             {"GEMINI_API_KEY"}
      [] c = "AzureOpenAIActivitiesImpl" ->
             {"AZURE_OPENAI_API_KEY", "AZURE_OPENAI_ENDPOINT",
              "AZURE_OPENAI_MODEL_NAME"}
      [] c = "OpenAIActivitiesImpl" -> {"OPENAI_API_KEY"}
      [] c = "AnthropicActivitiesImpl" -> {"ANTHROPIC_API_KEY"}
      [] c = "GeminiService" -> {"GEMINI_API_KEY"}
      [] c = "AzureService" ->
             {"AZURE_OPENAI_API_KEY", "AZURE_OPENAI_ENDPOINT",
              "AZURE_OPENAI_MODEL_NAME"}

\* the SDK client __init__ builds once its checks have passed
SdkClient(c) ==
    CASE c = "DocumentIntelligenceActivitiesImpl" -> "DocumentIntelligenceClient"
      [] c \in {"gemini_activities.GeminiActivitiesImpl",
                "app.activities.gemini_activities.GeminiActivitiesImpl",
                "app.activities.gemini_ai_activities.GeminiActivitiesImpl",
                "GeminiService"} -> "genai.GenerativeModel"
      [] c \in {"AzureOpenAIActivitiesImpl", "AzureService"} -> "AsyncAzureOpenAI"
      [] c = "OpenAIActivitiesImpl" -> "AsyncOpenAI"
      [] c = "AnthropicActivitiesImpl" -> "AsyncAnthropic"

\* the constructors __init__ runs, in order: DocumentService builds its two
\* services, every other class only itself
Parts(c) ==
    IF c = "DocumentService" THEN <<"GeminiService", "AzureService">>
    ELSE <<c>>

\* positions of the parts whose check fails under environment e
Failing(c, e) == {i \in DOMAIN Parts(c) : ~(Checked(Parts(c)[i]) \subseteq e)}

\* the parts constructed before the first failing one (all, if none fails)
Constructed(c, e) ==
    {i \in DOMAIN Parts(c) : \A j \in Failing(c, e) : i < j}

\* mutant: the check of the configuration is skipped
ConfigurationError_Never(c, e) == FALSE

\* whether __init__ raises ValueError("... configuration missing ...")
ConfigurationError(c, e) == Failing(c, e) # {}

Construct ==
    /\ callee \in Constructors /\ at = "call"
    /\ client' = {SdkClient(Parts(callee)[i]) : i \in Constructed(callee, env)}
    /\ IF ConfigurationError(callee, env)
       THEN raised' = "ValueError" /\ returned' = returned
       ELSE raised' = raised /\ returned' = "instance"
    /\ at' = "done"
    /\ UNCHANGED <<pairVars, runVars, parseVars, callee, passed, env, server, started>>

CallInit ==
    /\ callee \in Starters \cup Constructors
    /\ passed \in (IF callee \in Starters
                   THEN [use_azure : {"absent", "False", "True"},
                         client : IF callee = "main" THEN {FALSE} ELSE BOOLEAN]
                   ELSE {[use_azure |-> "absent", client |-> FALSE]})
    /\ env \in (IF callee \in Constructors THEN SUBSET EnvNames ELSE {{}})
    /\ server \in (IF callee \in Starters
                   THEN [connects : BOOLEAN, run : RunOutcomes]
                   ELSE {[connects |-> TRUE, run |-> "ok"]})
    /\ at = "call"
    /\ client = {}
    /\ started = <<>>
    /\ raised = "none"
    /\ returned = "none"
    /\ wf = "doc"
    /\ use_azure = FALSE
    /\ file_exists = TRUE
    /\ providers = <<>>
    /\ provider = "none"
    /\ RunStart
    /\ ParseIdle
    /\ PairIdle

CallNext == Call \/ Connect \/ StartWorkflow \/ AwaitResult \/ Construct

CallSpec == CallInit /\ [][CallNext]_vars

----------------------------------------------------------------------------
\* Two runs in flight at once. The runs of a worker process share its activity
\* implementations, the requests of the web application share its
\* document_service; what a run accumulates is held in the locals of its
\* coroutine.

MaxRuns == 2
RunIds == 1..MaxRuns

\* the contents a provider may answer with
Replies == {"a", "b"}

PairInputs ==
    [kind : {"chain"}, initial_prompt : {"p", "q"}, provider : {"none"}]
    \cup [kind : {"service"}, initial_prompt : {"p", "q"},
          provider : {"gemini", "azure"}]

\* the calls a run makes, in order: the adapter object called and the local
\* (or the key of the local dict) that receives the response
Plan(i) ==
    IF i.kind = "chain"
    THEN <<[adapter |-> "gemini", key |-> "gemini"],
           [adapter |-> "openai", key |-> "openai"],
           [adapter |-> "anthropic", key |-> "anthropic"]>>
    ELSE <<[adapter |-> IF i.provider = "azure" THEN "azure_service"
                        ELSE "gemini_service",
            key |-> "summary"],
           [adapter |-> "azure_service", key |-> "validation_result"]>>

\* the request of the run's next call: AIChainWorkflow quotes the original
\* request and every earlier response, process_document passes the file and
\* then the summary; no caller sets AIRequest.parameters
PairRequest(run) ==
    LET prior == [i \in 1..Len(run.results) |-> run.results[i].value.content]
    IN  [prompt |-> IF run.input.kind = "chain"
                    THEN <<run.input.initial_prompt>> \o prior
                    ELSE IF run.pc = 1 THEN <<run.input.initial_prompt>>
                    ELSE prior,
         parameters |-> "none"]

\* the model a call uses: one built for this request when it carries
\* parameters (a local of process_request), the adapter's own otherwise
Model(self, request) ==
    IF request.parameters # "none"
    THEN [model |-> self.model, generation_config |-> request.parameters]
    ELSE self

\* process_request assigns no attribute of the adapter
AdaptersAfter(a, request) == adapters

\* mutant: the results dict is one object shared by the runs
Keep_InSharedDict(rs, r, k, v) ==
    [q \in RunIds |-> [rs[q] EXCEPT !.results = DictSet(@, k, v)]]

\* results[k] = v in the coroutine of run r
Keep(rs, r, k, v) == [rs EXCEPT ![r].results = DictSet(@, k, v)]

\* the value a finished run returns
Composite(i, d) ==
    [results |-> d, consensus |-> d[Len(d)].value.content,
     provider_used |-> i.provider]

NotReturned == [results |-> <<>>, consensus |-> "none", provider_used |-> "none"]

\* run r makes its next call and stores the response
PairStep(r) ==
    /\ runs[r].pc <= Len(Plan(runs[r].input))
    /\ \E content \in Replies :
          LET call == Plan(runs[r].input)[runs[r].pc]
              request == PairRequest(runs[r])
              response == [content |-> content,
                           model_used |-> Model(adapters[call.adapter], request).model]
          IN  /\ runs' = [Keep(runs, r, call.key, response) EXCEPT
                             ![r].pc = @ + 1,
                             ![r].received = Append(@, response)]
              /\ adapters' = AdaptersAfter(call.adapter, request)
    /\ UNCHANGED <<runVars, parseVars, callVars>>

\* run r returns its composite result
PairReturn(r) ==
    /\ runs[r].pc = Len(Plan(runs[r].input)) + 1
    /\ runs[r].status = "Running"
    /\ runs' = [runs EXCEPT ![r].status = "Succeeded",
                            ![r].result = Composite(runs[r].input, runs[r].results)]
    /\ UNCHANGED <<runVars, parseVars, callVars, adapters>>

PairInit ==
    /\ \E i \in [RunIds -> PairInputs] :
          runs = [r \in RunIds |->
                    [input |-> i[r], pc |-> 1, results |-> <<>>,
                     received |-> <<>>, status |-> "Running",
                     result |-> NotReturned]]
    /\ adapters = AdapterObjects
    /\ wf = "doc"
    /\ use_azure = FALSE
    /\ file_exists = TRUE
    /\ providers = <<>>
    /\ provider = "none"
    /\ RunStart
    /\ ParseIdle
    /\ CallIdle

PairNext == \E r \in RunIds : PairStep(r) \/ PairReturn(r)

PairSpec == PairInit /\ [][PairNext]_vars

----------------------------------------------------------------------------
\* Properties

Closed == status \in {"Succeeded", "Failed"}
Errors(h) == Range(h) \ {"ok"}
\* position of the first success in an attempt history, 0 when there is none
FirstOk(h) ==
    IF "ok" \in Range(h)
    THEN CHOOSE i \in DOMAIN h : h[i] = "ok" /\ \A j \in 1..(i - 1) : h[j] # "ok"
    ELSE 0
FatalKinds(s) ==
    IF s = "ocr" THEN {"FileNotFoundError", "ValueError"} ELSE {"ValueError"}

\* C1: a step of DocumentProcessingWorkflow whose errors are all retryable
\* is attempted exactly min(attempts until the first success, 3) times: it
\* completes at its first success, which is within 3 attempts, or fails
\* after exactly 3 failed attempts, and is never attempted a 4th time.
C1_AttemptsAreMinOfSuccessAndMaximum ==
    wf = "doc" =>
      \A s \in DocSteps :
        Errors(hist[s]) \cap FatalKinds(s) = {} =>
          /\ attempts[s] <= 3
          /\ st[s] \in {"scheduled", "completed", "failed"} => Len(hist[s]) = attempts[s]
          /\ st[s] = "completed" => attempts[s] = FirstOk(hist[s])
          /\ st[s] = "failed" => attempts[s] = 3 /\ FirstOk(hist[s]) = 0
          /\ st[s] \in {"scheduled", "running"} => FirstOk(hist[s]) = 0
          /\ (st[s] = "scheduled" /\ attempts[s] > 0) => attempts[s] < 3

C1_Witness ==
    /\ wf = "doc"
    /\ st["ocr"] = "completed" /\ hist["ocr"] = <<"Other", "ok">>
    /\ st["summ"] = "failed" /\ hist["summ"] = <<"Timeout", "Other", "Other">>

C3_MissingFileFailsWithoutRetry ==
    (wf = "doc" /\ ~file_exists) =>
      /\ attempts["ocr"] <= 1 /\ waits["ocr"] = 0
      /\ st["ocr"] # "completed"
      /\ st["ocr"] = "failed" => lastError["ocr"] = "FileNotFoundError"
      /\ st["summ"] = "idle" /\ attempts["summ"] = 0
      /\ status # "Succeeded"
      /\ pc = "done" => status = "Failed" /\ failure = "FileNotFoundError"

C3_Witness ==
    /\ wf = "doc" /\ ~file_exists
    /\ status = "Failed" /\ failure = "FileNotFoundError"
    /\ attempts["ocr"] = 1

\* C4: when the first attempt of step 1 fails with ValueError, the step is
\* retried (it is not failed, and the run does not fail on that error).
C4_ValueErrorIsRetried ==
    (wf = "doc" /\ hist["ocr"] = <<"ValueError">>) =>
      /\ st["ocr"] # "failed"
      /\ status # "Failed"

\* C5: a successful DocumentProcessingWorkflow run returns ocr_text = the
\* full_text of step 1 and summary = the summary_json of the summarization
\* step, whose input full_text was step 1's full_text.
C5_ResultComposesStepOutputs ==
    (wf = "doc" /\ status = "Succeeded") =>
      /\ result.ocr_text = ret["ocr"].content
      /\ result.summary = ret["summ"].content
      /\ input["summ"] = <<Part("full_text", ret["ocr"].content)>>

C5_Witness ==
    /\ wf = "doc" /\ status = "Succeeded"
    /\ ret["ocr"].content = 2 /\ ret["summ"].content = 1
    /\ result.ocr_text = 2 /\ result.summary = 1

ThreeProviders == Len(providers) = 3 /\ Range(providers) = KnownProviders
DistinctTexts ==
    \A p, q \in KnownProviders : p # q => ret[p].content # ret[q].content
ProviderLabel(p) ==
    IF wf = "consensus" THEN Upper(p)
    ELSE CASE p = "gemini" -> "Gemini"
           [] p = "openai" -> "OpenAI"
           [] p = "anthropic" -> "Anthropic"

\* C6: in the fan-out workflows with the three providers returning distinct
\* texts, results has exactly the three keys gemini, openai, anthropic and
\* the synthesis prompt holds each provider's output under its own label.
C6_SynthesisPromptLabelsEachProvider ==
    ( /\ wf \in {"consensus", "specialist"}
      /\ wf = "consensus" => ThreeProviders
      /\ st["synth"] # "idle"
      /\ DistinctTexts ) =>
      /\ Len(results) = 3 /\ DictKeys(results) = KnownProviders
      /\ \A p \in KnownProviders :
            \E i \in DOMAIN input["synth"] :
               input["synth"][i] = Part(ProviderLabel(p), ret[p].content)

SubsetInAnyOrder ==
    /\ Range(providers) \subseteq KnownProviders
    /\ \A i, j \in DOMAIN providers : i # j => providers[i] # providers[j]

\* C7: for every providers list that is a subset of the three providers in
\* any order, results[p] is the response of provider p's own activity.
C7_ResultsKeepProviderAttribution ==
    (wf = "consensus" /\ SubsetInAnyOrder /\ pc \in {"await_synth", "done"}) =>
      \A p \in Range(providers) :
        /\ p \in DictKeys(results)
        /\ DictGet(results, p) = ret[p]
        /\ DictGet(results, p).model_used = p

\* C8: every run eventually reaches a terminal state, Succeeded or Failed
\* (for AIConsensusWorkflow: on every providers list that is a subset of
\* the three providers, which raises nothing in the workflow code).
C8_EveryRunTerminates ==
    (wf = "consensus" => SubsetInAnyOrder) => <>Closed

\* C9: once the run is Succeeded or Failed no activity of it is pending,
\* and from then on no step is scheduled, started or finished.
C9_NothingRunsAfterTerminal ==
    /\ [](Closed => \A s \in Steps : st[s] \notin {"scheduled", "running"})
    /\ [][Closed => (st' = st /\ attempts' = attempts /\ input' = input
                      /\ status' = status)]_vars

C9_Witness ==
    /\ wf = "specialist" /\ status = "Succeeded"
    /\ \A s \in AISteps : st[s] = "completed"

\* the steps that come after s in the pipeline of wf
Later(s) ==
    CASE s = "ocr" -> {"summ"}
      [] s = "extract" -> {"validate"}
      [] wf = "chain" /\ s = "gemini" -> {"openai", "anthropic"}
      [] wf = "chain" /\ s = "openai" -> {"anthropic"}
      [] wf \in {"consensus", "specialist"} /\ s \in KnownProviders -> {"synth"}
      [] OTHER -> {}

\* C10: a step that failed after exhausting its retries fails the run: no
\* later step of the pipeline is ever started, no placeholder stands in for
\* the failed step's result, and the run ends Failed; in a fan-out the
\* synthesis step is invoked only when every sibling has completed.  (No
\* step of any pipeline is marked optional.)
C10_StepFailureFailsRun ==
    /\ \A s \in Steps :
          st[s] = "failed" =>
            /\ \/ status = "Failed"
               \/ status = "Running" /\ (s \in Awaited \/ pc = "crashed")
            /\ ret[s] = NoRet
            /\ \A t \in Later(s) : st[t] = "idle" /\ attempts[t] = 0
    /\ (wf \in {"consensus", "specialist"} /\ st["synth"] # "idle") =>
          \A t \in Range(tasks) : st[t] = "completed"

C10_Witness ==
    /\ wf = "doc"
    /\ st["ocr"] = "failed" /\ attempts["ocr"] = 3 /\ lastError["ocr"] = "Timeout"
    /\ status = "Failed" /\ st["summ"] = "idle"

\* C11: AIChainWorkflow runs Gemini, then OpenAI, then Anthropic: a step is
\* scheduled (and so dispatched) only when the step before it has completed,
\* the OpenAI prompt carries the content Gemini returned, and the Anthropic
\* prompt carries the contents both Gemini and OpenAI returned.
C11_ChainIsSequential ==
    wf = "chain" =>
      /\ st["openai"] # "idle" =>
           /\ st["gemini"] = "completed"
           /\ Part("Initial analysis", ret["gemini"].content) \in Range(input["openai"])
      /\ st["anthropic"] # "idle" =>
           /\ st["gemini"] = "completed" /\ st["openai"] = "completed"
           /\ Part("Initial", ret["gemini"].content) \in Range(input["anthropic"])
           /\ Part("Refined", ret["openai"].content) \in Range(input["anthropic"])
      /\ st["gemini"] # "completed" => attempts["openai"] = 0
      /\ st["openai"] # "completed" => attempts["anthropic"] = 0
      /\ st["synth"] = "idle"

C11_Witness ==
    /\ wf = "chain" /\ status = "Succeeded"
    /\ ret["gemini"].content = 1 /\ ret["openai"].content = 2
    /\ attempts["anthropic"] = 1

\* the synthesis input the fan-out workflows build from what each launched
\* sibling returned, whatever the order the siblings completed in
SynthInputOf(r) ==
    IF wf = "specialist"
    THEN <<Part("Gemini", r["gemini"].content),
           Part("OpenAI", r["openai"].content),
           Part("Anthropic", r["anthropic"].content)>>
    ELSE [i \in DOMAIN providers |-> Part(Upper(providers[i]), r[tasks[i]].content)]

\* C12: in AIConsensusWorkflow and AISpecialistWorkflow the synthesis step
\* is scheduled only when every launched sibling has completed, in whatever
\* order the siblings completed, and its input is determined by what each
\* sibling returned (by the sibling's position in the task list), not by the
\* order they completed in.
C12_JoinWaitsForAllSiblings ==
    (wf \in {"consensus", "specialist"} /\ st["synth"] # "idle") =>
      /\ \A s \in Range(tasks) : st[s] = "completed"
      /\ Range(finished) = Range(tasks) /\ Len(finished) = Len(tasks)
      /\ input["synth"] = SynthInputOf(ret)

C12_Witness ==
    /\ wf = "consensus" /\ providers = <<"gemini", "openai", "anthropic">>
    /\ finished = <<"anthropic", "gemini", "openai">>
    /\ st["synth"] = "scheduled"
    /\ ret["gemini"].content = 1 /\ ret["openai"].content = 2
    /\ ret["anthropic"].content = 0

\* C13: a step that has completed stays completed with the result it
\* returned, across a crash of the orchestrating process and the resumption
\* of the run, and no further attempt of it is started: its provider call is
\* not issued again.
C13_CompletedStepsSurviveCrash ==
    [][\A s \in Steps :
         st[s] = "completed" =>
           /\ st'[s] = "completed"
           /\ ret'[s] = ret[s]
           /\ attempts'[s] = attempts[s]]_vars

\* the queue the claim names for a provider
QueueOf(p) ==
    CASE p = "gemini" -> "gemini-ai-queue"
      [] p = "openai" -> "openai-ai-queue"
      [] p = "anthropic" -> "anthropic-ai-queue"

StepsOf(w) == IF w = "chain" THEN AISteps \ {"synth"} ELSE AISteps

\* every call site names the queue of the step's provider
QueuesFollowProviders ==
    \A w \in {"consensus", "chain", "specialist"} :
        \A s \in StepsOf(w) : TaskQueue(w, s) = QueueOf(ProviderOf(s))

\* each provider has one worker, on the provider's queue
OneWorkerPerProvider ==
    \A p \in KnownProviders :
        \E w \in Workers :
           /\ w.impl = p /\ w.task_queue = QueueOf(p)
           /\ "process_request" \in w.activities
           /\ \A v \in Workers : (v.impl = p \/ v.task_queue = QueueOf(p)) => v = w

\* C14: in AIConsensusWorkflow, AIChainWorkflow and AISpecialistWorkflow the
\* queue of every step is the queue of the step's provider (Gemini steps on
\* gemini-ai-queue, OpenAI steps on openai-ai-queue, Anthropic steps on
\* anthropic-ai-queue); each provider has exactly one worker, which polls
\* exactly that queue with process_request registered; and so every
\* attempt of a step is run by the worker of the step's provider.
C14_QueueIsFunctionOfProvider ==
    /\ QueuesFollowProviders
    /\ OneWorkerPerProvider
    /\ wf \in {"consensus", "chain", "specialist"} =>
         \A s \in AISteps :
            /\ attempts[s] > 0 =>
                  /\ Pollers(s) # {}
                  /\ \A w \in Pollers(s) : w.impl = ProviderOf(s)
            /\ st[s] = "completed" => ret[s].model_used = ProviderOf(s)

C14_Witness ==
    /\ wf = "specialist" /\ status = "Succeeded"
    /\ \A s \in AISteps : st[s] = "completed"
    /\ ret["synth"].model_used = "anthropic" /\ ret["gemini"].model_used = "gemini"

CannedResult == Return(Literal("No text extracted."), "[]")

\* C15: with empty extracted text both summarization activities return
\* {"summary": "No text extracted.", "keywords": []} and issue no call to
\* the provider.
C15_EmptyTextSkipsProvider ==
    (fn \in Summarizers /\ full_text = <<>>) =>
      /\ remote_calls = 0
      /\ \A k \in DOMAIN out : out[k] = CannedResult

C15_Witness ==
    /\ fn = "perform_azure_summarization" /\ full_text = <<>>
    /\ Len(out) = 1 /\ out[1] = CannedResult

\* a response that is no JSON as a whole and holds one JSON object with
\* summary and keywords between plain words, no fence and no other brace
EmbedsObject(raw) ==
    /\ Len(raw) > 1
    /\ \E i \in DOMAIN raw :
          /\ raw[i].type = "object" /\ HasBoth(raw[i]) /\ ~HasFence(raw[i])
          /\ \A j \in DOMAIN raw \ {i} : raw[j] = Word
Embedded(raw) == raw[CHOOSE i \in DOMAIN raw : raw[i].type = "object"]

\* C16: when the response is not JSON as a whole but embeds a JSON object
\* with summary and keywords in surrounding text (no code fence), the
\* summarization activity returns exactly that object.
C16_EmbeddedObjectIsReturned ==
    (fn \in Summarizers /\ EmbedsObject(reply)) =>
      \A k \in DOMAIN out :
         out[k] = Return(FromJson(Embedded(reply).summary), Embedded(reply).keywords)

\* C17: for every non-empty response text the summarization activity
\* returns (does not raise) a summary_json that has a summary.
C17_NeverRaisesOnResponse ==
    (fn \in Summarizers /\ reply # <<>>) =>
      \A k \in DOMAIN out :
         /\ out[k].outcome = "return"
         /\ out[k].summary_json.summary # FromJson("absent")

ListCodes ==
    {"list", "[]", "[Could not validate the summary.]",
     "[Error parsing validation response.]"}

\* C19: for every response of the provider, validate_summary returns an
\* object whose is_accurate is a boolean and whose suggested_improvements is
\* a list.
C19_ValidationResultIsTyped ==
    (fn = "validate_summary" /\ ~api_fails) =>
      \A k \in DOMAIN out :
         /\ out[k].outcome = "return"
         /\ out[k].validation.is_accurate \in {"true", "false"}
         /\ out[k].validation.suggested_improvements \in ListCodes

SummarizationActivities == {"perform_summarization", "perform_azure_summarization"}

\* C20: a run of DocumentProcessingWorkflow never schedules a summarization
\* activity other than the one use_azure selects (perform_summarization
\* when it is false, perform_azure_summarization when it is true), it
\* schedules that one once the OCR step has completed, and a run that
\* succeeds has scheduled exactly that one and returns its summary_json as
\* the summary.
C20_OneSummarizationBySelection ==
    wf = "doc" =>
      LET selected == IF use_azure THEN "perform_azure_summarization"
                      ELSE "perform_summarization"
      IN  /\ invoked \cap SummarizationActivities \subseteq {selected}
          /\ selected \in invoked <=> st["summ"] # "idle"
          /\ status = "Succeeded" =>
               /\ invoked \cap SummarizationActivities = {selected}
               /\ ret["summ"].model_used = (IF use_azure THEN "azure" ELSE "gemini")
               /\ result.summary = ret["summ"].content

C20_Witness ==
    /\ wf = "doc" /\ use_azure /\ status = "Succeeded"
    /\ invoked = {"process_document", "perform_azure_summarization"}
    /\ attempts["summ"] = 2 /\ result.summary = 2

\* the provider selection of the caller of a starter: use_azure, False
\* unless the caller passes True
Selection == IF passed.use_azure = "True" THEN "True" ELSE "False"

\* C21: start_document_workflow starts DocumentProcessingWorkflow on the
\* queue 'document-processing-queue' with exactly two workflow arguments,
\* the DocumentInput and the use_azure flag (False by default, True when the
\* caller passes use_azure=True), so that the workflow runs with the
\* caller's provider selection.
C21_SelectionReachesWorkflow ==
    (callee = "start_document_workflow" /\ at = "done"
        /\ (passed.client \/ server.connects))
    => /\ Len(started) = 1
       /\ started[1].workflow = "DocumentProcessingWorkflow.run"
       /\ started[1].task_queue = "document-processing-queue"
       /\ started[1].args = <<"doc_input", Selection>>
       /\ RunUseAzure(started[1].args) = (Selection = "True")

\* C22: start_document_workflow passes failures on: when the connection
\* fails the connection error is raised and no workflow is started; when the
\* run fails the error of awaiting its result is raised and nothing is
\* returned.
C22_StarterPropagatesFailures ==
    (callee = "start_document_workflow" /\ at = "done"
        /\ Keywords(passed) \subseteq Parameters(callee))
    => /\ (~passed.client /\ ~server.connects)
              => (raised = "ConnectionError" /\ started = <<>>
                     /\ returned = "none")
       /\ ((passed.client \/ server.connects) /\ server.run # "ok")
              => (raised = server.run /\ returned = "none"
                     /\ Len(started) = 1)
       /\ ((passed.client \/ server.connects) /\ server.run = "ok")
              => (raised = "none" /\ returned = "WorkflowResult")

C22_Witness ==
    /\ callee = "start_document_workflow" /\ at = "done"
    /\ server.connects /\ server.run = "ValueError"
    /\ raised = "ValueError" /\ Len(started) = 1

\* the configuration an adapter's client cannot be built without
Needs(c) ==
    IF c = "gemini_activities.GeminiActivitiesImpl" THEN {"GEMINI_API_KEY"}
    ELSE UNION {Checked(Parts(c)[i]) : i \in DOMAIN Parts(c)}

\* C23: constructing any provider adapter while a credential, endpoint or
\* model name it needs is missing from the configuration fails with a
\* configuration error, before an instance exists that could make a remote
\* call; for every adapter.
C23_MissingConfigurationFailsFast ==
    (callee \in Constructors /\ at = "done" /\ ~(Needs(callee) \subseteq env))
    => (raised = "ValueError" /\ returned = "none")

\* the same for the adapters that read their configuration from the
\* environment (all but the top-level gemini_activities module)
C23_HoldsForEnvironmentAdapters ==
    (callee \in Constructors \ {"gemini_activities.GeminiActivitiesImpl"}
        /\ at = "done" /\ ~(Needs(callee) \subseteq env))
    => (raised = "ValueError" /\ returned = "none")

\* the error classes of the taxonomy
Taxonomy ==
    {"ConfigError", "InputError", "ProviderTransientError",
     "ProviderFatalError", "TimeoutError", "RetriesExhausted"}

\* C24: a caller of the pipeline receives either a composite result or a
\* terminal error of one of the classes of the taxonomy, never the raw
\* exception of a provider.
C24_TerminalErrorsAreClassified ==
    Closed => \/ status = "Succeeded" /\ result # NoResult
              \/ status = "Failed" /\ failure \in Taxonomy

Last(h) == h[Len(h)]

\* C25: an attempt of a step of DocumentProcessingWorkflow whose remote call
\* runs longer than the step's timeout (5 minutes for the extraction, 3 for
\* the summarization) is one failed attempt, of kind Timeout, and the step is
\* retried after it unless it was the last attempt the policy allows.
C25_TimeoutIsRetriedFailure ==
    \A s \in DocSteps :
        /\ Len(hist[s]) = attempts[s] - (IF st[s] = "running" THEN 1 ELSE 0)
        /\ hist[s] # <<>> =>
              /\ (Last(hist[s]) = "Timeout")
                     = (elapsed[s] > (IF s = "ocr" THEN 5 ELSE 3))
              /\ (Last(hist[s]) = "Timeout" /\ st[s] # "running") =>
                     st[s] = (IF attempts[s] >= MaximumAttempts(s) THEN "failed"
                              ELSE "scheduled")

C25_Witness ==
    /\ hist["ocr"] = <<"Timeout", "ok">> /\ elapsed["ocr"] = 4
    /\ hist["summ"] = <<"Timeout", "Timeout", "Timeout">>
    /\ elapsed["summ"] = 4 /\ st["summ"] = "failed"

\* the schedule of every configured policy, up to one wait more than its
\* attempts allow
SchedulesAreMonotoneAndBounded ==
    \A p \in RetryPolicies :
        /\ p.initial_interval <= p.maximum_interval
        /\ \A n \in 1..p.maximum_attempts :
              /\ NextDelay(p, n) <= NextDelay(p, n + 1)
              /\ NextDelay(p, n + 1) <= p.maximum_interval

\* C26: under every retry policy the wait before a retry is not shorter than
\* the wait before the previous one and never longer than maximum_interval
\* (30 s for the Document-Intelligence step, which starts at 5 s; 2 minutes
\* for the summarization, which starts at 15 s), and initial_interval is at
\* most maximum_interval.
C26_BackoffIsMonotoneAndBounded ==
    /\ \A s \in DocSteps :
          /\ Len(delays[s]) = waits[s]
          /\ delays[s] # <<>> => delays[s][1] = (IF s = "ocr" THEN 5 ELSE 15)
          /\ \A i \in DOMAIN delays[s] :
                /\ delays[s][i] <= (IF s = "ocr" THEN 30 ELSE 120)
                /\ i > 1 => delays[s][i - 1] <= delays[s][i]
    /\ SchedulesAreMonotoneAndBounded

C26_Witness ==
    /\ delays["ocr"] = <<5, 10>>
    /\ delays["summ"] = <<15, 30>>

\* a summarization activity has been handed a response by its provider
Answered == fn \in Summarizers /\ ~SkipsProvider(full_text) /\ ~api_fails

\* the response holds nothing that could be JSON
Unparsed(raw) == raw # <<>> /\ \A i \in DOMAIN raw : raw[i] = Word

\* the response is one JSON object that lacks summary or keywords and whose
\* summary does not encode a complete object either
LacksKey(raw) ==
    /\ Len(raw) = 1 /\ raw[1].type = "object" /\ ~HasBoth(raw[1])
    /\ raw[1].summary # "str:obj_full"

\* C27: whenever the parsing of a summarization response fails, or the
\* parsed object lacks 'summary' or 'keywords', the summary_json returned
\* is exactly {summary: the first 500 characters of the raw response,
\* keywords: []}.
C27_FallbackIsRawPrefix ==
    (Answered /\ (Unparsed(reply) \/ LacksKey(reply))) =>
      \A k \in DOMAIN out : out[k] = Return(RawPrefix(reply), "[]")

\* the same for the responses no JSON can be read from
C27_HoldsWhenNothingParses ==
    (Answered /\ Unparsed(reply)) =>
      \A k \in DOMAIN out : out[k] = Return(RawPrefix(reply), "[]")

\* a result built by a fallback: a summary that is a prefix of the raw
\* text, the str() of an object or a canned literal; a validation with a
\* canned list of improvements
ViaFallback(o) ==
    IF fn = "validate_summary"
    THEN o.validation.suggested_improvements
             \in {"[Could not validate the summary.]",
                  "[Error parsing validation response.]"}
    ELSE o.summary_json.summary.form \in {"raw", "str", "literal"}

\* the degraded marker a caller can read off a result
Degraded(o) == "metadata" \in DOMAIN o /\ o.metadata.degraded = TRUE

\* C28: every result produced by a fallback (parse fallback, default for an
\* empty response, short-circuit on empty input) carries degraded=true in
\* its metadata, and no result of a clean parse does.
C28_FallbacksAreMarkedDegraded ==
    fn \in Fns =>
      \A k \in DOMAIN out :
         out[k].outcome = "return" => (Degraded(out[k]) = ViaFallback(out[k]))

\* the response is one JSON object whose summary is a string that encodes
\* an object with summary and keywords
DoublyEncoded(raw) ==
    /\ Len(raw) = 1 /\ raw[1].type = "object"
    /\ IsStr(raw[1].summary)
    /\ LoadsStr(raw[1].summary).ok
    /\ LoadsStr(raw[1].summary).value.type = "object"
    /\ HasBoth(LoadsStr(raw[1].summary).value)
Inner(raw) == LoadsStr(raw[1].summary).value

\* C29: when the 'summary' of the parsed object is a JSON-encoded string
\* that decodes to an object with 'summary' and 'keywords', the activity
\* returns that inner object, unwrapped once, whether or not the outer
\* object has a 'keywords' key of its own.
C29_NestedObjectIsUnwrapped ==
    (Answered /\ DoublyEncoded(reply)) =>
      \A k \in DOMAIN out :
         out[k] = Return(FromJson(Inner(reply).summary), Inner(reply).keywords)

\* the same for the outer objects that have no 'keywords'
C29_HoldsWithoutOuterKeywords ==
    (Answered /\ DoublyEncoded(reply) /\ reply[1].keywords = "absent") =>
      \A k \in DOMAIN out :
         out[k] = Return(FromJson(Inner(reply).summary), Inner(reply).keywords)

\* the text between the first '{' and the last '}', <<>> when there is none
BraceSubstring(raw) ==
    IF Find(raw) # 0 /\ RFind(raw) # 0 /\ Find(raw) <= RFind(raw)
    THEN SubSeq(raw, Find(raw), RFind(raw))
    ELSE <<>>

\* the result of the staged policy: the first of the full text, the fenced
\* block and the brace substring that is JSON is validated, and the fallback
\* is taken when none is
Staged(raw) ==
    IF Loads(raw).ok THEN Validated(Loads(raw).value)
    ELSE IF FenceMatches(raw) # {} /\ Loads(FenceMatch(raw)).ok
    THEN Validated(Loads(FenceMatch(raw)).value)
    ELSE IF Loads(BraceSubstring(raw)).ok
    THEN Validated(Loads(BraceSubstring(raw)).value)
    ELSE Unparseable(raw)

\* C30: the parsing stages are tried in order, each later one whenever the
\* earlier ones yield no JSON: the full text, the contents of a fenced
\* block, the text from the first '{' to the last '}'; in particular the
\* brace substring is still tried when a fenced block is found whose
\* contents do not parse.
C30_StagesAreTriedInOrder ==
    (fn = "perform_summarization" /\ Answered /\ reply # <<>>) =>
      \A k \in DOMAIN out : out[k] = Staged(reply)

\* the same for the responses in which no fenced block is found
C30_HoldsWithoutFence ==
    (fn = "perform_summarization" /\ Answered /\ reply # <<>>
        /\ FenceMatches(reply) = {}) =>
      \A k \in DOMAIN out : out[k] = Staged(reply)

\* what the other summarization adapter makes of the same response
OtherAdapter(raw) ==
    IF fn = "perform_summarization" THEN ParseAzure(raw) ELSE ParseGemini(raw)

\* C31: the Gemini and the Azure OpenAI summarization adapters implement
\* the same parsing policy: for every raw response text both return the same
\* summary_json.
C31_AdaptersParseAlike ==
    Answered =>
      \A k \in DOMAIN out : out[k] = OtherAdapter(reply)

\* the same for the responses that are JSON as a whole, or empty
C31_HoldsForPureJson ==
    (Answered /\ (reply = <<>> \/ Loads(reply).ok)) =>
      \A k \in DOMAIN out : out[k] = OtherAdapter(reply)

\* C32: every provider adapter maps an empty or missing provider response
\* (no choices, empty or null content, empty text) to a result with an
\* explicit text that is not null; no adapter builds a result whose text is
\* null.
C32_EmptyResponseHasExplicitText ==
    (fn \in AIFns /\ ~api_fails /\ Falsy(reply)) =>
      \A k \in DOMAIN out :
         /\ out[k].outcome = "return"
         /\ out[k].content.form \in {"raw", "literal"}

\* the same for the Gemini and the Anthropic adapter
C32_HoldsForGeminiAndAnthropic ==
    (fn \in AIFns \ {"OpenAIActivitiesImpl.process_request"} /\ ~api_fails
        /\ Falsy(reply)) =>
      \A k \in DOMAIN out :
         /\ out[k].outcome = "return"
         /\ out[k].content.form \in {"raw", "literal"}

\* what run r was answered, under the keys its own plan gives the answers
Own(run) ==
    [i \in 1..Len(run.received) |->
        [key |-> Plan(run.input)[i].key, value |-> run.received[i]]]

\* C33: concurrent runs do not interfere. Under every interleaving of the
\* steps of two runs, what a run has accumulated is exactly the responses to
\* its own calls, its composite result is built from its own input and those
\* responses alone, every call saw the adapter as its constructor left it,
\* and no step changed the state of an adapter.
C33_ConcurrentRunsDoNotInterfere ==
    /\ adapters = AdapterObjects
    /\ \A r \in DOMAIN runs :
          /\ runs[r].results = Own(runs[r])
          /\ \A i \in DOMAIN runs[r].received :
                runs[r].received[i].model_used
                    = AdapterObjects[Plan(runs[r].input)[i].adapter].model
          /\ runs[r].status = "Succeeded"
                => runs[r].result = Composite(runs[r].input, Own(runs[r]))

\* a step of one run leaves the other runs' records as they were
C33_HoldsStepwise ==
    [][\A r \in DOMAIN runs :
          runs'[r] # runs[r]
              => /\ \A q \in DOMAIN runs \ {r} : runs'[q] = runs[q]
                 /\ adapters' = adapters]_vars

\* two runs of the same kind, answered differently, have both returned
C33_Witness ==
    /\ DOMAIN runs = RunIds
    /\ \A r \in RunIds : runs[r].status = "Succeeded"
    /\ runs[1].input.kind = runs[2].input.kind
    /\ runs[1].input.initial_prompt # runs[2].input.initial_prompt
    /\ \A i \in DOMAIN runs[1].received :
          runs[1].received[i].content # runs[2].received[i].content

\* C34: DocumentService.process_document extracts and summarizes first and
\* validates second; the validation step is given exactly the summary the
\* first step produced and is executed by the Azure adapter whichever
\* provider was selected; the composite returned holds the first step's
\* markdown_content and summary and the validation result.
C34_ServiceValidatesFirstStepsSummary ==
    wf = "service" =>
        /\ st["validate"] # "idle"
              => /\ st["extract"] = "completed"
                 /\ input["validate"] = <<Part("summary", ret["extract"].summary)>>
        /\ st["validate"] = "completed" => ret["validate"].model_used = "azure"
        /\ status = "Succeeded"
              => /\ st["validate"] = "completed"
                 /\ result.markdown_content = ret["extract"].content
                 /\ result.summary = ret["extract"].summary
                 /\ result.validation_result = ret["validate"].content

\* a Gemini-processed document whose summary the Azure adapter validated
C34_Witness ==
    /\ wf = "service" /\ provider \in {"none", "gemini"}
    /\ status = "Succeeded"
    /\ ret["extract"].model_used = "gemini"
    /\ ret["validate"].model_used = "azure"
    /\ result.summary = ret["extract"].summary

\* C35: the provider_used field of the composite returned by
\* DocumentService.process_document names the provider that produced
\* markdown_content and summary, for every value of the provider argument
\* (None, "gemini", "azure" or any other string).
C35_ProviderUsedNamesTheProducer ==
    (wf = "service" /\ status = "Succeeded")
        => result.provider_used = ret["extract"].model_used

\* the same for the values the signature announces and for None
C35_HoldsForAnnouncedProviders ==
    (wf = "service" /\ status = "Succeeded" /\ provider # "other")
        => result.provider_used = ret["extract"].model_used

\* the workers that poll queue q with activity a registered
Registered(q, a) ==
    {w \in DocumentWorkers : w.task_queue = q /\ a \in w.activities}

\* C36: every activity DocumentProcessingWorkflow schedules
\* (process_document, perform_summarization, perform_azure_summarization) is
\* registered on the worker that polls the queue it is dispatched to,
\* "document-processing-queue", so that a scheduled step is picked up by a
\* worker able to execute it.
C36_ScheduledActivitiesAreRegistered ==
    wf = "doc" =>
        \A a \in invoked : DocumentWorker \in Registered(TASK_QUEUE, a)

\* the summarization activities are registered on the top-level worker,
\* process_document on neither worker
C36_HoldsForSummarizationOnLegacyWorker ==
    wf = "doc" =>
        /\ \A a \in invoked \ {"process_document"} :
               LegacyWorker \in Registered(TASK_QUEUE, a)
        /\ Registered(TASK_QUEUE, "process_document") = {}

\* the conditions of C37 on a run of AIConsensusWorkflow
FanOutMatchesList ==
    /\ pc # "start" => Len(tasks) = Len(providers)
    /\ pc # "task_failed"
    /\ pc \in {"await_synth", "done"}
          => /\ Len(results) = Len(providers)
             /\ DictKeys(results) = Range(providers)

\* C37: for every providers list given to AIConsensusWorkflow (empty,
\* reordered, with a repeated name, with a name other than
\* gemini/openai/anthropic) the number of fan-out activities launched equals
\* the number of list entries, the results mapping gets exactly one entry
\* per listed provider, and the workflow does not fail while building the
\* results mapping.
C37_FanOutFollowsProvidersList ==
    wf = "consensus" => FanOutMatchesList

\* the same for the lists of distinct names among gemini, openai, anthropic
C37_HoldsForDistinctKnownProviders ==
    (/\ wf = "consensus"
     /\ Range(providers) \subseteq KnownProviders
     /\ Cardinality(Range(providers)) = Len(providers)) => FanOutMatchesList

\* the activities a run has dispatched so far
Dispatched == {s \in AISteps : st[s] # "idle"}

\* what AIChainWorkflow and AISpecialistWorkflow can have dispatched
FixedDispatch(w) ==
    IF w = "chain"
    THEN {{}, {"gemini"}, {"gemini", "openai"}, {"gemini", "openai", "anthropic"}}
    ELSE {{}, KnownProviders, AISteps}

\* step s went to the queue of its provider and was run by its worker
OnOwnQueue(s) ==
    /\ TaskQueue(wf, s) = QueueOf(ProviderOf(s))
    /\ st[s] = "completed" => ret[s].model_used = ProviderOf(s)

\* C38: what AIChainWorkflow and AISpecialistWorkflow invoke does not depend
\* on input.providers: whatever list is given, the run dispatches the same
\* activities (Gemini, OpenAI, Anthropic, and the synthesis for the
\* specialist) to the same queues, all of them when it succeeds; and the
\* final synthesis of AIConsensusWorkflow is on the Anthropic queue whatever
\* the list.
C38_DispatchIgnoresProvidersList ==
    /\ wf \in {"chain", "specialist"} =>
          /\ Dispatched \in FixedDispatch(wf)
          /\ status = "Succeeded" => Dispatched = StepsOf(wf)
          /\ \A s \in Dispatched : OnOwnQueue(s)
    /\ (wf = "consensus" /\ st["synth"] # "idle") =>
          /\ TaskQueue(wf, "synth") = "anthropic-ai-queue"
          /\ OnOwnQueue("synth")

\* a run given the list ["openai"] has invoked all the providers
C38_Witness ==
    /\ wf \in {"chain", "specialist"}
    /\ providers = <<"openai">>
    /\ status = "Succeeded"
    /\ {"gemini", "anthropic"} \subseteq Dispatched
    /\ ret["gemini"].model_used = "gemini"

====
